---- MODULE Spec2Model ----
(***************************************************************************)
(* Request-body descriptors (httpclient/body_types.go) and the body        *)
(* middleware (httpclient/body_handler.go) of conjure-go-runtime.          *)
(*                                                                         *)
(* Memory is explicit: `heap` holds the backing arrays of byte slices, a   *)
(* bytes.Buffer / bytes.Reader / strings.Reader value is a record naming   *)
(* its backing array, and `streams` holds the reader objects handed out as *)
(* request bodies, so that a Go struct copy (`snapshot := *input`) shares  *)
(* the backing array with its source exactly as in the build.              *)
(***************************************************************************)
EXTENDS Integers, Sequences, FiniteSets, TLC

VARIABLES
    heap,        \* backing arrays: heap[a] is the array's cells, Len = cap
    src,         \* the caller's in-memory input (*T), or Nil
    srcAtCall,   \* history: unread bytes of src when RequestBodyInMemory was called
    callerOps,   \* number of operations the caller performed on src afterwards
    streams,     \* reader objects handed out as bodies, with what was read from each
    reqs,        \* http.Request values a descriptor was materialized onto
    mats,        \* history: the materializations of stream descriptors, in order
    bufs,        \* the *bytes.Buffer objects the buffer pool created
    poolFree,    \* the buffer pool: the buffers it holds, oldest first
    ex           \* the exchanges: bodyMiddleware, request and position in RoundTrip

\* The error-type registry (conjure-go-contract/errors).
VARIABLES
    registry,    \* ReflectTypeConjureErrorDecoder.registry: name -> reflect.Type
    gor,         \* the goroutines calling the decoder: position and arguments
    regCalls,    \* history: the calls that returned, in order of their return
    fatal        \* the runtime stopped the process (unsynchronised map access)

\* The mapped refreshable TLS configuration (refreshingclient).
VARIABLES
    conf,        \* MappedRefreshableTLSConfig.conf
    mu,          \* MappedRefreshableTLSConfig.mu: the goroutine holding it, 0 if free
    subscribers, \* MappedRefreshableTLSConfig.subscribers
    upstream,    \* the RefreshableTLSConf r that ConfigureTLSConfig was given
    threads,     \* the goroutines using the config: each one's call stack
    hist         \* history: updates, stores, deliveries, unsubscribe calls

regVars == <<registry, gor, regCalls, fatal>>
tlsVars == <<conf, mu, subscribers, upstream, threads, hist>>
bodyVars == <<heap, src, srcAtCall, callerOps, streams, reqs, mats, bufs, poolFree, ex>>
vars == <<bodyVars, regVars, tlsVars>>

\* ---------------------------------------------------------------- bounds
MaxByte == 2          \* payload bytes are 1..MaxByte; 0 is a zeroed cell
MaxLen == 2           \* longest initial payload
MaxSpare == 1         \* spare capacity of an initial bytes.Buffer
MaxReqs == 2          \* materializations of one descriptor
MaxStreams == 3       \* reader objects handed out
MaxCallerOps == 2     \* caller operations on the source buffer

Byte == 1..MaxByte

Nil == [t |-> "nil"]
NoErr == [t |-> "noerr"]
NoBody == [t |-> "NoBody"]           \* http.NoBody
StreamRef(i) == [t |-> "stream", id |-> i]

\* The registry and the TLS configuration are not in use.
RegistryIdle ==
    /\ registry = <<>>
    /\ gor = <<>>
    /\ regCalls = <<>>
    /\ fatal = FALSE
TLSIdle ==
    /\ conf = Nil
    /\ mu = 0
    /\ subscribers = <<>>
    /\ upstream = Nil
    /\ threads = <<>>
    /\ hist = <<>>

RECURSIVE SeqsUpTo(_)
SeqsUpTo(n) ==
    IF n = 0 THEN {<<>>}
    ELSE LET S == SeqsUpTo(n - 1)
         IN S \cup {Append(s, b) : s \in {x \in S : Len(x) = n - 1}, b \in Byte}

Zeros(n) == [i \in 1..n |-> 0]
Max(a, b) == IF a >= b THEN a ELSE b

\* ------------------------------------------- bytes.Buffer / Reader values
\* A value of one of the three in-memory types.  For a bytes.Buffer, buf is
\* heap[arr][0:len] and off the read offset; for a bytes.Reader or
\* strings.Reader, s is heap[arr] (len = Len(heap[arr])) and off is r.i.
Kinds == {"Buffer", "BytesReader", "StringsReader"}

\* b.buf[b.off:] (Buffer) or r.s[r.i:] (Reader): the unread bytes.
Unread(h, b) == IF b.off >= b.len THEN <<>> ELSE SubSeq(h[b.arr], b.off + 1, b.len)

\* Len() of the three types, as called through lenInterface.
contentLengthInMemoryTotal(input) == IF input = Nil THEN 0 ELSE input.len
contentLengthInMemory(input) ==
    IF input = Nil THEN 0
    ELSE IF input.off >= input.len THEN 0 ELSE input.len - input.off

\* (*Buffer).Reset: b.buf = b.buf[:0]; b.off = 0.  The array is kept.
BufferReset(b) == [b EXCEPT !.len = 0, !.off = 0]

\* Read of one byte: the reader value after the call.  An empty Buffer
\* resets itself; an exhausted Reader stays where it is (io.EOF).
ReadOne(b) ==
    IF b.off >= b.len
    THEN IF b.kind = "Buffer" THEN BufferReset(b) ELSE b
    ELSE [b EXCEPT !.off = b.off + 1]

\* (*Buffer).Write of the single byte x: tryGrowByReslice, else grow (reset
\* when empty, reslice, slide down, or reallocate), then copy(b.buf[m:], p).
\* Yields the buffer value and the heap after the call.
BufferWrite(h, b, x) ==
    LET c == Len(h[b.arr])
        m == IF b.off >= b.len THEN 0 ELSE b.len - b.off
    IN IF 1 <= c - b.len
       THEN [b |-> [b EXCEPT !.len = b.len + 1],
             h |-> [h EXCEPT ![b.arr][b.len + 1] = x]]
       ELSE LET b1 == IF m = 0 /\ b.off # 0 THEN BufferReset(b) ELSE b
            IN IF 1 <= c - b1.len
               THEN [b |-> [b1 EXCEPT !.len = b1.len + 1],
                     h |-> [h EXCEPT ![b.arr][b1.len + 1] = x]]
               ELSE IF 1 <= (c \div 2) - m
               THEN \* slide: copy(b.buf, b.buf[b.off:])
                    [b |-> [b1 EXCEPT !.off = 0, !.len = m + 1],
                     h |-> [h EXCEPT ![b.arr] =
                              [i \in 1..c |->
                                 IF i <= m THEN h[b.arr][b1.off + i]
                                 ELSE IF i = m + 1 THEN x ELSE h[b.arr][i]]]]
               ELSE \* growSlice(b.buf[b.off:], b.off+1): a new array
                    LET nc == Max(m + b1.off + 1, 2 * (c - b1.off))
                        na == [i \in 1..nc |->
                                 IF i <= m THEN h[b.arr][b1.off + i]
                                 ELSE IF i = m + 1 THEN x ELSE 0]
                    IN [b |-> [b1 EXCEPT !.arr = Len(h) + 1, !.off = 0, !.len = m + 1],
                        h |-> Append(h, na)]

\* --------------------------------------------------- requestBodyFunc
\* The zero http.Request of RetrieveReaderFromRequestBody: req := &http.Request{}.
ZeroRequest == [ContentLength |-> 0, Body |-> Nil, GetBody |-> Nil]

\* requestBodyFunc.setRequestBody: f is the 4-tuple the function returned.
\* On an error the request is left alone; a nil body becomes http.NoBody
\* with length 0 and no GetBody.
setRequestBodyFuncClearsOnErr(req, f) ==
    IF f.err # NoErr \/ f.body = Nil
    THEN [req EXCEPT !.ContentLength = 0, !.Body = NoBody, !.GetBody = Nil]
    ELSE [req EXCEPT !.ContentLength = f.length, !.Body = f.body, !.GetBody = f.getBody]
setRequestBodyFuncKeepsLength(req, f) ==
    IF f.err # NoErr THEN req
    ELSE IF f.body = Nil
    THEN [req EXCEPT !.ContentLength = f.length, !.Body = NoBody, !.GetBody = Nil]
    ELSE [req EXCEPT !.ContentLength = f.length, !.Body = f.body, !.GetBody = f.getBody]
setRequestBodyFunc(req, f) ==
    IF f.err # NoErr THEN req
    ELSE IF f.body = Nil
    THEN [req EXCEPT !.ContentLength = 0, !.Body = NoBody, !.GetBody = Nil]
    ELSE [req EXCEPT !.ContentLength = f.length, !.Body = f.body, !.GetBody = f.getBody]

\* A reader object of the store: the reader value r, the bytes read from it
\* so far (history), the request it belongs to and whether GetBody made it.
NewStream(r, q, replay) == [r |-> r, got |-> <<>>, req |-> q, replay |-> replay]

\* The closure RequestBodyInMemory returns, run with the source as it is now;
\* the first body will be reader object number id.  `made` lists the reader
\* values it creates (r := snapshot inside getBody).
RequestBodyInMemoryFunc(input, id) ==
    IF input = Nil
    THEN [length |-> 0, body |-> Nil, getBody |-> Nil, err |-> NoErr, made |-> <<>>]
    ELSE LET contentLen == contentLengthInMemory(input)
             snapshot == input
         IN [length |-> contentLen,
             body |-> StreamRef(id),
             getBody |-> [t |-> "snapshot", snap |-> snapshot],
             err |-> NoErr,
             made |-> <<snapshot>>]

\* ------------------------------------------------------------ actions
\* RetrieveReaderFromRequestBody(RequestBodyInMemory(src)), or the
\* materialization a physical attempt performs: a fresh request is set up
\* from the descriptor.
MaterializeInMemory ==
    /\ Len(reqs) < MaxReqs
    /\ Len(streams) < MaxStreams
    /\ LET q == Len(reqs) + 1
           f == RequestBodyInMemoryFunc(src, Len(streams) + 1)
       IN /\ reqs' = Append(reqs, setRequestBodyFunc(ZeroRequest, f))
          /\ streams' = streams \o [i \in 1..Len(f.made) |-> NewStream(f.made[i], q, FALSE)]
    /\ UNCHANGED <<regVars, tlsVars, heap, src, srcAtCall, callerOps, mats, bufs, poolFree, ex>>

\* req.GetBody() of request q, as the transport calls it before a retry or
\* a redirect: for the in-memory descriptor, r := snapshot; return &r.
GetBodyInMemory(q) ==
    /\ reqs[q].GetBody # Nil
    /\ reqs[q].GetBody.t = "snapshot"
    /\ Len(streams) < MaxStreams
    /\ streams' = Append(streams, NewStream(reqs[q].GetBody.snap, q, TRUE))
    /\ UNCHANGED <<regVars, tlsVars, heap, src, srcAtCall, callerOps, reqs, mats, bufs, poolFree, ex>>

\* One byte is read from reader object i (the transport sending the body).
ReadStreamSharesReader(i) ==
    /\ Unread(heap, streams[i].r) # <<>>
    /\ streams' = [j \in DOMAIN streams |->
                     IF j = i
                     THEN [streams[j] EXCEPT !.r = ReadOne(@),
                                             !.got = Append(@, Unread(heap, streams[i].r)[1])]
                     ELSE [streams[j] EXCEPT !.r = ReadOne(@)]]
    /\ UNCHANGED <<regVars, tlsVars, heap, src, srcAtCall, callerOps, reqs, mats, bufs, poolFree, ex>>
ReadStream(i) ==
    /\ Unread(heap, streams[i].r) # <<>>
    /\ streams' = [streams EXCEPT ![i].r = ReadOne(@),
                                  ![i].got = Append(@, Unread(heap, streams[i].r)[1])]
    /\ UNCHANGED <<regVars, tlsVars, heap, src, srcAtCall, callerOps, reqs, mats, bufs, poolFree, ex>>

\* io.ReadAll of reader object i: all it holds is read, up to io.EOF.
RECURSIVE ReadToEnd(_, _)
ReadToEnd(h, s) ==
    IF Unread(h, s.r) = <<>> THEN [s EXCEPT !.r = ReadOne(s.r)]
    ELSE ReadToEnd(h, [s EXCEPT !.r = ReadOne(s.r), !.got = Append(s.got, Unread(h, s.r)[1])])

ReadAllStream(i) ==
    /\ Unread(heap, streams[i].r) # <<>>
    /\ streams' = [streams EXCEPT ![i] = ReadToEnd(heap, @)]
    /\ UNCHANGED <<regVars, tlsVars, heap, src, srcAtCall, callerOps, reqs, mats, bufs, poolFree, ex>>

\* Reader object i is read at its end: io.EOF (an empty Buffer resets itself).
ReadStreamEOF(i) ==
    /\ Unread(heap, streams[i].r) = <<>>
    /\ streams[i].r # ReadOne(streams[i].r)
    /\ streams' = [streams EXCEPT ![i].r = ReadOne(@)]
    /\ UNCHANGED <<regVars, tlsVars, heap, src, srcAtCall, callerOps, reqs, mats, bufs, poolFree, ex>>


\* ============================================================ descriptors
\* A RequestBody value.  ctor names the constructor; a stream descriptor
\* carries the shape of the caller's factory (1: func() io.ReadCloser,
\* 2: func() (io.ReadCloser, error), 3: func() (io.ReadCloser, int64, error)),
\* what the factory does (fac) and, for shape 3, the length it reports.
Shapes == {1, 2, 3}

\* What a caller's factory does when called:
\*   fresh   a new reader over the payload, every time
\*   shared  the one reader it holds (e.g. another response's body), every time
\*   guard   a new reader the first time, then nothing (an error where the
\*           shape has one): the readOnce factory of the tests
\*   nilbody no reader and no error
\*   error   no reader and an error (shapes 2 and 3)
\*   flaky   an error the first time, then a new reader (shapes 2 and 3)
\*   nilfunc the factory is a nil func value
FactoryKinds(shape) ==
    {"fresh", "shared", "guard", "nilbody", "nilfunc"} \cup
    (IF shape = 1 THEN {} ELSE {"error", "flaky"})

StreamDescriptors(ctor) ==
    UNION {{[t |-> "RequestBody", ctor |-> ctor, shape |-> s, fac |-> k, flen |-> n] :
               k \in FactoryKinds(s), n \in IF s = 3 THEN {0, MaxLen} ELSE {0}} :
           s \in Shapes}

\* The payload a factory's readers carry lives in heap[PayloadArr].
PayloadArr == 1
FactoryErr == [t |-> "err", what |-> "factory"]
EncoderErr == [t |-> "err", what |-> "encoder"]
Panic == [t |-> "panic"]

\* The factory's state: how often it was called, the reader it shares, and
\* (history) what each call returned.
NewFactoryState == [calls |-> 0, shared |-> 0, outs |-> <<>>]

\* One call v() of the caller's factory of descriptor d in factory state fs;
\* a reader it creates becomes reader object number id.
FactoryCall(d, fs, h, id) ==
    LET fresh == [kind |-> "StringsReader", arr |-> PayloadArr, off |-> 0,
                  len |-> Len(h[PayloadArr])]
        called(body, e) == [fs EXCEPT !.calls = fs.calls + 1,
                                      !.outs = Append(@, [body |-> body, err |-> e])]
        none(e) == [body |-> Nil, length |-> d.flen, err |-> e, made |-> <<>>,
                    fs |-> called(Nil, e)]
        new(f) == [body |-> StreamRef(id), length |-> d.flen, err |-> NoErr,
                   made |-> <<fresh>>, fs |-> f]
    IN CASE d.fac = "nilfunc" -> [body |-> Nil, length |-> 0, err |-> Panic, made |-> <<>>, fs |-> fs]
         [] d.fac = "fresh" -> new(called(StreamRef(id), NoErr))
         [] d.fac = "shared" ->
              IF fs.shared = 0 THEN new([called(StreamRef(id), NoErr) EXCEPT !.shared = id])
              ELSE [body |-> StreamRef(fs.shared), length |-> d.flen, err |-> NoErr,
                    made |-> <<>>, fs |-> called(StreamRef(fs.shared), NoErr)]
         [] d.fac = "guard" ->
              IF fs.calls = 0 THEN new(called(StreamRef(id), NoErr))
              ELSE none(IF d.shape = 1 THEN NoErr ELSE FactoryErr)
         [] d.fac = "flaky" ->
              IF fs.calls = 0 THEN none(FactoryErr) ELSE new(called(StreamRef(id), NoErr))
         [] d.fac = "nilbody" -> none(NoErr)
         [] d.fac = "error" -> none(FactoryErr)

\* What a descriptor's function returns, with what running it changed:
\* length, body, getBody, err as in requestBodyFunc; made: the reader values
\* created; fs, h, bs: factory state, heap and pool buffers afterwards;
\* ev: the collaborators it called.
Returned(length, body, getBody, err, made, fs, h, bs, ev) ==
    [length |-> length, body |-> body, getBody |-> getBody, err |-> err,
     made |-> made, fs |-> fs, h |-> h, bs |-> bs, ev |-> ev]

\* RequestBodyEmpty.
RequestBodyEmptyFunc(fs, h, bs) ==
    Returned(0, NoBody, Nil, NoErr, <<>>, fs, h, bs, <<>>)

\* RequestBodyStreamOnce: the factory's reader, never a GetBody.  A nil func
\* value of type T is not a nil interface: the typed case is taken and v()
\* is a call of a nil func.
RequestBodyStreamOnceReplayable(d, fs, h, bs, id) ==
    LET c == FactoryCall(d, fs, h, id)
        gb == [t |-> "factory"]
    IN IF d.shape = 3
       THEN Returned(c.length, c.body, gb, c.err, c.made, c.fs, h, bs, <<"Factory">>)
       ELSE Returned(-1, c.body, gb, c.err, c.made, c.fs, h, bs, <<"Factory">>)
RequestBodyStreamOnceFunc(d, fs, h, bs, id) ==
    LET c == FactoryCall(d, fs, h, id)
    IN CASE d.shape = 1 -> Returned(-1, c.body, Nil, c.err, c.made, c.fs, h, bs, <<"Factory">>)
         [] d.shape = 2 -> Returned(-1, c.body, Nil, c.err, c.made, c.fs, h, bs, <<"Factory">>)
         [] d.shape = 3 -> Returned(c.length, c.body, Nil, c.err, c.made, c.fs, h, bs, <<"Factory">>)

\* RequestBodyStreamWithReplay: the factory's reader, and a GetBody that
\* calls the factory again.
RequestBodyStreamWithReplayFunc(d, fs, h, bs, id) ==
    LET c == FactoryCall(d, fs, h, id)
        gb == [t |-> "factory"]
    IN CASE d.shape = 1 -> Returned(-1, c.body, gb, c.err, c.made, c.fs, h, bs, <<"Factory">>)
         [] d.shape = 2 -> Returned(-1, c.body, gb, c.err, c.made, c.fs, h, bs, <<"Factory">>)
         [] d.shape = 3 -> Returned(c.length, c.body, gb, c.err, c.made, c.fs, h, bs, <<"Factory">>)

\* The getBody closure of RequestBodyStreamWithReplay, called: one call of
\* the factory, whose reader and error (nil for the first shape) it returns.
StreamWithReplayGetBodyDropsErr(d, fs, h, id) ==
    LET c == FactoryCall(d, fs, h, id)
    IN [body |-> c.body, err |-> NoErr, made |-> c.made, fs |-> c.fs]
StreamWithReplayGetBody(d, fs, h, id) ==
    LET c == FactoryCall(d, fs, h, id)
    IN CASE d.shape = 1 -> [body |-> c.body, err |-> NoErr, made |-> c.made, fs |-> c.fs]
         [] d.shape = 2 -> [body |-> c.body, err |-> c.err, made |-> c.made, fs |-> c.fs]
         [] d.shape = 3 -> [body |-> c.body, err |-> c.err, made |-> c.made, fs |-> c.fs]

\* The bytes the injected encoder produces for a request input.
Encoding(input) == IF input.t = "object" THEN input.enc ELSE <<MaxByte>>

\* bytes.NewReader(raw) over the slice heap[arr][off:len].
RawReaderDropsLast(arr, off, len) ==
    [kind |-> "BytesReader", arr |-> arr, off |-> off, len |-> IF len > off THEN len - 1 ELSE len]
RawReader(arr, off, len) == [kind |-> "BytesReader", arr |-> arr, off |-> off, len |-> len]

\* RequestBodyEncoderObject: encoder.Marshal allocates raw; body and GetBody
\* are readers over raw.
RequestBodyEncoderObjectFunc(input, encoder, fs, h, bs, id) ==
    IF encoder.fails
    THEN Returned(0, Nil, Nil, EncoderErr, <<>>, fs, h, bs, <<"Marshal">>)
    ELSE LET raw == Encoding(input)
             a == Len(h) + 1
         IN Returned(Len(raw), StreamRef(id),
                     [t |-> "raw", arr |-> a, off |-> 0, len |-> Len(raw)], NoErr,
                     <<RawReader(a, 0, Len(raw))>>, fs, Append(h, raw), bs, <<"Marshal">>)

\* Writes of the bytes s, one after the other, to a bytes.Buffer.
RECURSIVE WriteAll(_, _, _)
WriteAll(h, b, s) ==
    IF s = <<>> THEN [b |-> b, h |-> h]
    ELSE LET w == BufferWrite(h, b, Head(s)) IN WriteAll(w.h, w.b, Tail(s))

\* RequestBodyEncoderObjectBuffer: encoder.Encode writes into the buffer;
\* raw := buffer.Bytes() is the buffer's unread part, not a copy.
RequestBodyEncoderObjectBufferFunc(input, encoder, buffer, fs, h, bs, id) ==
    IF encoder.fails
    THEN Returned(0, Nil, Nil, EncoderErr, <<>>, fs, h, bs, <<"Encode">>)
    ELSE LET w == WriteAll(h, bs[buffer], Encoding(input))
             n == contentLengthInMemory(w.b)
         IN Returned(n, StreamRef(id),
                     [t |-> "raw", arr |-> w.b.arr, off |-> w.b.off, len |-> w.b.len], NoErr,
                     <<RawReader(w.b.arr, w.b.off, w.b.len)>>, fs, w.h,
                     [bs EXCEPT ![buffer] = w.b], <<"Encode">>)

\* The function of a RequestBody value d handed in by the caller.
RequestBodyFunc(d, input, fs, h, bs, id) ==
    CASE d.ctor = "Empty" -> RequestBodyEmptyFunc(fs, h, bs)
      [] d.ctor = "InMemory" ->
           LET f == RequestBodyInMemoryFunc(input, id)
           IN Returned(f.length, f.body, f.getBody, f.err, f.made, fs, h, bs, <<>>)
      [] d.ctor = "StreamOnce" -> RequestBodyStreamOnceFunc(d, fs, h, bs, id)
      [] d.ctor = "StreamWithReplay" -> RequestBodyStreamWithReplayFunc(d, fs, h, bs, id)
      [] d.ctor = "EncoderObject" ->
           RequestBodyEncoderObjectFunc(d.input, d.encoder, fs, h, bs, id)
      [] d.ctor = "EncoderObjectBuffer" ->
           RequestBodyEncoderObjectBufferFunc(d.input, d.encoder, d.buffer, fs, h, bs, id)

\* ============================================================ buffer pool
\* bytesbuffers.NewSizedPool(PoolSize, PoolBufSize): Get takes the oldest
\* pooled buffer or makes a new one; Put resets the buffer and keeps it when
\* the pool has room.
PoolSize == 1
PoolBufSize == 1

PoolGetKeepsPooled(free, bs, h) ==
    IF free # <<>>
    THEN [buf |-> Head(free), free |-> free, bs |-> bs, h |-> h]
    ELSE [buf |-> Len(bs) + 1, free |-> free,
          bs |-> Append(bs, [kind |-> "Buffer", arr |-> Len(h) + 1, off |-> 0, len |-> 0]),
          h |-> Append(h, Zeros(PoolBufSize))]
PoolGet(free, bs, h) ==
    IF free # <<>>
    THEN [buf |-> Head(free), free |-> Tail(free), bs |-> bs, h |-> h]
    ELSE [buf |-> Len(bs) + 1, free |-> free,
          bs |-> Append(bs, [kind |-> "Buffer", arr |-> Len(h) + 1, off |-> 0, len |-> 0]),
          h |-> Append(h, Zeros(PoolBufSize))]

PoolPut(free, bs, buf) ==
    [free |-> IF Len(free) < PoolSize THEN Append(free, buf) ELSE free,
     bs |-> [bs EXCEPT ![buf] = BufferReset(@)]]


\* ======================================================== body middleware
ConfigErr == [t |-> "err", what |-> "config"]
NoCleanup == [t |-> "noop"]                  \* cleanup := func() {}
PutCleanup(buf) == [t |-> "put", buf |-> buf]   \* func() { b.bufferPool.Put(buf) }

\* bodyMiddleware.noRetriesRequestBody.
noRetriesRequestBodyNever(b) == FALSE
noRetriesRequestBodyAnyEncoder(b) ==
    IF b.requestInput # Nil
    THEN b.requestInput.t = "RequestBody" /\ b.requestInput.ctor = "StreamOnce"
    ELSE FALSE
noRetriesRequestBody(b) ==
    IF b.requestEncoder = Nil /\ b.requestInput # Nil
    THEN b.requestInput.t = "RequestBody" /\ b.requestInput.ctor = "StreamOnce"
    ELSE FALSE

\* bodyMiddleware.setRequestBody up to its last line: the body source it
\* picks (branch), the cleanup it returns and what running the descriptor's
\* function f yields; the last line, requestBody.setRequestBody(req), is
\* setRequestBodyFunc(req, f).  free: the pool afterwards.
SetBody(branch, cleanup, f, free, ev) ==
    [branch |-> branch, cleanup |-> cleanup, f |-> f, free |-> free, ev |-> ev \o f.ev]

bodyMiddlewareSetRequestBodyDescriptorFirst(b, input, fs, h, bs, free, id) ==
    IF b.requestInput = Nil
    THEN SetBody("empty", NoCleanup, RequestBodyEmptyFunc(fs, h, bs), free, <<>>)
    ELSE IF b.requestInput.t = "RequestBody"
    THEN SetBody("requestBody", NoCleanup,
                 RequestBodyFunc(b.requestInput, input, fs, h, bs, id), free, <<>>)
    ELSE IF b.requestEncoder # Nil
    THEN IF b.bufferPool
         THEN LET g == PoolGet(free, bs, h)
              IN SetBody("encoderBuffer", PutCleanup(g.buf),
                         RequestBodyEncoderObjectBufferFunc(
                             b.requestInput, b.requestEncoder, g.buf, fs, g.h, g.bs, id),
                         g.free, <<"Get">>)
         ELSE SetBody("encoder", NoCleanup,
                      RequestBodyEncoderObjectFunc(
                          b.requestInput, b.requestEncoder, fs, h, bs, id), free, <<>>)
    ELSE SetBody("configError", Nil,
                 Returned(0, Nil, Nil, ConfigErr, <<>>, fs, h, bs, <<>>), free, <<>>)
bodyMiddlewareSetRequestBody(b, input, fs, h, bs, free, id) ==
    IF b.requestInput = Nil
    THEN SetBody("empty", NoCleanup, RequestBodyEmptyFunc(fs, h, bs), free, <<>>)
    ELSE IF b.requestEncoder # Nil
    THEN IF b.bufferPool
         THEN LET g == PoolGet(free, bs, h)
              IN SetBody("encoderBuffer", PutCleanup(g.buf),
                         RequestBodyEncoderObjectBufferFunc(
                             b.requestInput, b.requestEncoder, g.buf, fs, g.h, g.bs, id),
                         g.free, <<"Get">>)
         ELSE SetBody("encoder", NoCleanup,
                      RequestBodyEncoderObjectFunc(
                          b.requestInput, b.requestEncoder, fs, h, bs, id), free, <<>>)
    ELSE IF b.requestInput.t = "RequestBody"
    THEN SetBody("requestBody", NoCleanup,
                 RequestBodyFunc(b.requestInput, input, fs, h, bs, id), free, <<>>)
    ELSE SetBody("configError", Nil,
                 Returned(0, Nil, Nil, ConfigErr, <<>>, fs, h, bs, <<>>), free, <<>>)

\* RoundTrip lines 41-43: where it goes after setRequestBody returned err.
RoundTripIgnoresErr(err) == "transport"
RoundTripAfterSetRequestBody(err) ==
    IF err # NoErr THEN "returned" ELSE "transport"

\* A response body as the transport hands it over: nothing read from it,
\* not closed.  codecs.Decoder.Decode(resp.Body, out) reads from it.
RespBody == [t |-> "respBody", read |-> FALSE, closed |-> FALSE]
Decoded(resp) == [resp EXCEPT !.Body.read = TRUE]

\* bodyMiddleware.readResponse: the error it returns, whether it called the
\* decoder, and the response (the object resp points to) afterwards; decErr
\* is what the decoder would return.
readResponseSkipsUnknownLength(b, resp, respErr, decErr) ==
    IF b.rawOutput /\ respErr = NoErr THEN [err |-> NoErr, ev |-> <<>>, resp |-> resp]
    ELSE IF respErr # NoErr THEN [err |-> respErr, ev |-> <<>>, resp |-> resp]
    ELSE IF ~b.responseOutput \/ resp = Nil THEN [err |-> NoErr, ev |-> <<>>, resp |-> resp]
    ELSE IF resp.Body = Nil \/ resp.ContentLength <= 0
    THEN [err |-> NoErr, ev |-> <<>>, resp |-> resp]
    ELSE [err |-> decErr, ev |-> <<"Decode">>, resp |-> Decoded(resp)]
readResponseRawFirst(b, resp, respErr, decErr) ==
    IF b.rawOutput THEN [err |-> NoErr, ev |-> <<>>, resp |-> resp]
    ELSE IF respErr # NoErr THEN [err |-> respErr, ev |-> <<>>, resp |-> resp]
    ELSE IF ~b.responseOutput \/ resp = Nil THEN [err |-> NoErr, ev |-> <<>>, resp |-> resp]
    ELSE IF resp.Body = Nil \/ resp.ContentLength = 0
    THEN [err |-> NoErr, ev |-> <<>>, resp |-> resp]
    ELSE [err |-> decErr, ev |-> <<"Decode">>, resp |-> Decoded(resp)]
readResponseIgnoresRaw(b, resp, respErr, decErr) ==
    IF respErr # NoErr THEN [err |-> respErr, ev |-> <<>>, resp |-> resp]
    ELSE IF ~b.responseOutput \/ resp = Nil THEN [err |-> NoErr, ev |-> <<>>, resp |-> resp]
    ELSE IF resp.Body = Nil \/ resp.ContentLength = 0
    THEN [err |-> NoErr, ev |-> <<>>, resp |-> resp]
    ELSE [err |-> decErr, ev |-> <<"Decode">>, resp |-> Decoded(resp)]
readResponse(b, resp, respErr, decErr) ==
    IF b.rawOutput /\ respErr = NoErr THEN [err |-> NoErr, ev |-> <<>>, resp |-> resp]
    ELSE IF respErr # NoErr THEN [err |-> respErr, ev |-> <<>>, resp |-> resp]
    ELSE IF ~b.responseOutput \/ resp = Nil THEN [err |-> NoErr, ev |-> <<>>, resp |-> resp]
    ELSE IF resp.Body = Nil \/ resp.ContentLength = 0
    THEN [err |-> NoErr, ev |-> <<>>, resp |-> resp]
    ELSE [err |-> decErr, ev |-> <<"Decode">>, resp |-> Decoded(resp)]

\* Running the cleanup function setRequestBody returned.
RunCleanup(cleanup) == IF cleanup.t = "put" THEN <<"cleanup", "Put">> ELSE <<"cleanup">>

\* RoundTrip lines 46-52, after next.RoundTrip returned (resp, respErr):
\* cleanup(), readResponse, return.  Yields what RoundTrip returns, whether
\* cleanup ran, and the calls made, in order.
RoundTripReadsFirst(b, cleanup, resp, respErr, decErr) ==
    LET rr == readResponse(b, resp, respErr, decErr)
    IN IF rr.err # NoErr
       THEN [ret |-> [resp |-> Nil, err |-> rr.err], cleanup |-> FALSE,
             ev |-> rr.ev \o <<"return">>]
       ELSE [ret |-> [resp |-> rr.resp, err |-> NoErr], cleanup |-> TRUE,
             ev |-> rr.ev \o RunCleanup(cleanup) \o <<"return">>]
RoundTripSwallowsReadErr(b, cleanup, resp, respErr, decErr) ==
    LET rr == readResponse(b, resp, respErr, decErr)
    IN [ret |-> [resp |-> rr.resp, err |-> NoErr],
        cleanup |-> TRUE,
        ev |-> RunCleanup(cleanup) \o rr.ev \o <<"return">>]
RoundTripAfterNext(b, cleanup, resp, respErr, decErr) ==
    LET rr == readResponse(b, resp, respErr, decErr)
    IN [ret |-> IF rr.err # NoErr THEN [resp |-> Nil, err |-> rr.err]
                ELSE [resp |-> rr.resp, err |-> NoErr],
        cleanup |-> TRUE,
        ev |-> RunCleanup(cleanup) \o rr.ev \o <<"return">>]

\* ============================================================== exchanges
\* The exchanges of the model, and one that is not running.
Exchanges == {1, 2}
UnusedExchange == [pc |-> "unused"]

\* ----------------------------------------------- the caller's source
\* The inputs RequestBodyInMemory can be called with: nil, or a value of one
\* of the three types over some payload, part of which may already be read.
InitSources ==
    {[src |-> Nil, heap |-> <<>>]} \cup
    {[src |-> [kind |-> k, arr |-> 1, off |-> o, len |-> Len(s)],
      heap |-> <<s \o Zeros(IF k = "Buffer" THEN sp ELSE 0)>>] :
        k \in Kinds, s \in SeqsUpTo(MaxLen), o \in 0..MaxLen, sp \in 0..MaxSpare}

InitInMemory ==
    /\ \E i \in {x \in InitSources : x.src = Nil \/ x.src.off <= x.src.len} :
          /\ src = i.src
          /\ heap = i.heap
          /\ srcAtCall = IF i.src = Nil THEN <<>> ELSE Unread(i.heap, i.src)
    /\ callerOps = 0
    /\ streams = <<>>
    /\ reqs = <<>>
    /\ mats = <<>>
    /\ bufs = <<>>
    /\ poolFree = <<>>
    /\ RegistryIdle
    /\ TLSIdle
    /\ ex = [e \in Exchanges |-> UnusedExchange]

NextInMemory ==
    \/ MaterializeInMemory
    \/ \E q \in 1..Len(reqs) : GetBodyInMemory(q)
    \/ \E i \in 1..Len(streams) : ReadStream(i)
    \/ \E i \in 1..Len(streams) : ReadStreamEOF(i)

\* The descriptor is materialized and replayed; the caller leaves src alone.
SpecInMemory == InitInMemory /\ [][NextInMemory]_vars

\* C1: every materialization of an in-memory descriptor over N unread bytes
\* reports length N, and every stream of it (the first body and each GetBody
\* result), however far the others were read, yields exactly those N bytes:
\* what was read from it followed by what it still holds is the payload.
C1_ReplayIdentical ==
    /\ \A q \in 1..Len(reqs) :
          src # Nil => /\ reqs[q].ContentLength = Len(srcAtCall)
                       /\ reqs[q].Body # Nil
                       /\ reqs[q].GetBody # Nil
    /\ \A i \in 1..Len(streams) :
          streams[i].got \o Unread(heap, streams[i].r) = srcAtCall

\* Two replays of one request exist beside its first body, one stream has
\* been read to its end and another only in part.
C1_Witness ==
    /\ Len(srcAtCall) = MaxLen
    /\ Len(streams) >= 3
    /\ streams[2].replay /\ streams[3].replay
    /\ streams[1].got # <<>> /\ streams[1].got # srcAtCall
    /\ streams[3].got = srcAtCall
    /\ reqs[1].ContentLength = MaxLen

\* ------------------------------------------ the caller mutates the source
\* After RequestBodyInMemory(src) returned, the caller keeps using src.
\* (*bytes.Buffer).Write of one byte.
CallerWrite(x) ==
    /\ src # Nil
    /\ src.kind = "Buffer"
    /\ callerOps < MaxCallerOps
    /\ LET w == BufferWrite(heap, src, x)
       IN /\ src' = w.b
          /\ heap' = w.h
    /\ callerOps' = callerOps + 1
    /\ UNCHANGED <<regVars, tlsVars, srcAtCall, streams, reqs, mats, bufs, poolFree, ex>>

\* (*bytes.Buffer).Reset, or Reset(s) of a Reader onto another payload s.
CallerReset(s) ==
    /\ src # Nil
    /\ callerOps < MaxCallerOps
    /\ IF src.kind = "Buffer"
       THEN /\ s = <<>>
            /\ src' = BufferReset(src)
            /\ heap' = heap
       ELSE /\ src' = [src EXCEPT !.arr = Len(heap) + 1, !.off = 0, !.len = Len(s)]
            /\ heap' = Append(heap, s)
    /\ callerOps' = callerOps + 1
    /\ UNCHANGED <<regVars, tlsVars, srcAtCall, streams, reqs, mats, bufs, poolFree, ex>>

\* The caller reads one byte from src.
CallerRead ==
    /\ src # Nil
    /\ callerOps < MaxCallerOps
    /\ Unread(heap, src) # <<>>
    /\ src' = ReadOne(src)
    /\ callerOps' = callerOps + 1
    /\ UNCHANGED <<regVars, tlsVars, heap, srcAtCall, streams, reqs, mats, bufs, poolFree, ex>>

NextMutate ==
    \/ MaterializeInMemory
    \/ \E q \in 1..Len(reqs) : GetBodyInMemory(q)
    \/ \E i \in 1..Len(streams) : ReadStream(i)
    \/ \E i \in 1..Len(streams) : ReadStreamEOF(i)
    \/ \E x \in Byte : CallerWrite(x)
    \/ \E s \in SeqsUpTo(MaxLen) : CallerReset(s)
    \/ CallerRead

\* As SpecInMemory, with a caller that goes on writing to, resetting and
\* reading the source buffer.
SpecMutate == InitInMemory /\ [][NextMutate]_vars

\* C4: the content and length every stream of the descriptor yields are
\* those of the source when RequestBodyInMemory was called, whatever the
\* caller did to the source afterwards.
C4_SnapshotAtCall ==
    \A i \in 1..Len(streams) :
        /\ reqs[streams[i].req].ContentLength = Len(srcAtCall)
        /\ streams[i].got \o Unread(heap, streams[i].r) = srcAtCall

\* ------------------------------------------------- one exchange's steps
MaxAttempts == 2      \* physical attempts of one exchange
MaxRetrieves == 1     \* RetrieveReaderFromRequestBody calls on the descriptor
MaxFactoryCalls == 3  \* calls of the caller's factory

TransportErr == [t |-> "err", what |-> "transport"]
Canceled == [t |-> "err", what |-> "canceled"]
DecodeErr == [t |-> "err", what |-> "decode"]
StatusErr(code) == [t |-> "err", what |-> "status", code |-> code]

\* What the transport stage (next.RoundTrip) can return: an error (of the
\* transport, a cancelled context, or the error middleware's for a redirect
\* or failure status) and no response, or a response with a content length
\* and possibly no body, or nothing at all, or (a RoundTripper that does not
\* keep to the contract) a response together with an error.
TransportOutcomes ==
    {[resp |-> Nil, err |-> e] :
        e \in {TransportErr, Canceled, StatusErr(307), StatusErr(404), NoErr}} \cup
    {[resp |-> [t |-> "resp", ContentLength |-> n, Body |-> body], err |-> NoErr] :
        n \in {-1, 0, MaxLen}, body \in {Nil, RespBody}} \cup
    {[resp |-> [t |-> "resp", ContentLength |-> MaxLen, Body |-> RespBody],
      err |-> TransportErr]}

\* The materialization record kept for a descriptor handed in by the caller:
\* who materialized (by), the error, the body and the bytes the body held
\* when it was handed over.
Mat(e, by, q, f, ss, h) ==
    [e |-> e, by |-> by, req |-> q, err |-> f.err, body |-> f.body,
     handed |-> IF f.err = NoErr /\ f.body # Nil /\ f.body # NoBody
                THEN Unread(h, ss[f.body.id].r) ELSE <<>>]

\* What a materialization (by the exchange or by
\* RetrieveReaderFromRequestBody) or a GetBody call handed to its caller.
Result(by, body, err) == [by |-> by, body |-> body, err |-> err]

WithMade(ss, f, q, replay) ==
    ss \o [i \in 1..Len(f.made) |-> NewStream(f.made[i], q, replay)]

\* bodyMiddleware.RoundTrip up to the call of next.RoundTrip: setRequestBody,
\* and the return of its error.
RoundTripStart(e) ==
    /\ ex[e].pc = "start"
    /\ Len(streams) < MaxStreams
    /\ LET x == ex[e]
           r == bodyMiddlewareSetRequestBody(x.b, src, x.fs, heap, bufs, poolFree,
                                             Len(streams) + 1)
           f == r.f
           ss == WithMade(streams, f, x.req, FALSE)
           pc2 == IF f.err = Panic THEN "panicked" ELSE RoundTripAfterSetRequestBody(f.err)
       IN /\ reqs' = [reqs EXCEPT ![x.req] = setRequestBodyFunc(@, f)]
          /\ streams' = ss
          /\ heap' = f.h
          /\ bufs' = f.bs
          /\ poolFree' = r.free
          /\ mats' = IF r.branch = "requestBody"
                     THEN Append(mats, Mat(e, "exchange", x.req, f, ss, f.h)) ELSE mats
          /\ ex' = [ex EXCEPT ![e] =
                      [x EXCEPT !.pc = pc2,
                                !.branch = r.branch,
                                !.cleanup = r.cleanup,
                                !.setErr = f.err,
                                !.fs = f.fs,
                                !.results = IF r.branch = "requestBody"
                                            THEN Append(@, Result("exchange", f.body, f.err))
                                            ELSE @,
                                !.ev = r.ev \o (CASE pc2 = "returned" -> <<"return">>
                                                  [] pc2 = "transport" -> <<"next">>
                                                  [] OTHER -> <<>>),
                                !.ret = IF pc2 = "returned"
                                        THEN [resp |-> Nil, err |-> f.err] ELSE @]]
    /\ UNCHANGED <<regVars, tlsVars, src, srcAtCall, callerOps>>

\* The transport stage calls req.GetBody() to send the body again.
TransportGetBody(e) ==
    /\ ex[e].pc = "transport"
    /\ Len(streams) < MaxStreams
    /\ reqs[ex[e].req].GetBody # Nil
    /\ ex[e].fs.calls < MaxFactoryCalls
    /\ LET x == ex[e]
           gb == reqs[x.req].GetBody
           id == Len(streams) + 1
       IN CASE gb.t = "snapshot" ->
                 /\ streams' = Append(streams, NewStream(gb.snap, x.req, TRUE))
                 /\ ex' = ex
            [] gb.t = "raw" ->
                 /\ streams' = Append(streams,
                                      NewStream(RawReader(gb.arr, gb.off, gb.len), x.req, TRUE))
                 /\ ex' = ex
            [] gb.t = "factory" ->
                 LET c == StreamWithReplayGetBody(x.b.requestInput, x.fs, heap, id)
                 IN /\ streams' = WithMade(streams, c, x.req, TRUE)
                    /\ ex' = [ex EXCEPT ![e].fs = c.fs,
                                        ![e].results = Append(@, Result("replay", c.body, c.err))]
    /\ UNCHANGED <<regVars, tlsVars, heap, src, srcAtCall, callerOps, reqs, mats, bufs, poolFree>>

\* next.RoundTrip returns out, and bodyMiddleware.RoundTrip runs from there
\* to its own return: cleanup(), readResponse, return.
RoundTripNext(e, out, decErr) ==
    /\ ex[e].pc = "transport"
    /\ LET x == ex[e]
           r == RoundTripAfterNext(x.b, x.cleanup, out.resp, out.err, decErr)
           put == IF r.cleanup /\ x.cleanup.t = "put"
                  THEN PoolPut(poolFree, bufs, x.cleanup.buf)
                  ELSE [free |-> poolFree, bs |-> bufs]
       IN /\ poolFree' = put.free
          /\ bufs' = put.bs
          /\ ex' = [ex EXCEPT ![e].pc = "returned", ![e].resp = out.resp,
                              ![e].respErr = out.err,
                              ![e].decErr = IF \E i \in DOMAIN r.ev : r.ev[i] = "Decode"
                                            THEN decErr ELSE NoErr,
                              ![e].ret = r.ret,
                              ![e].ev = @ \o <<"nextReturned">> \o r.ev]
    /\ UNCHANGED <<regVars, tlsVars, heap, src, srcAtCall, callerOps, streams, reqs, mats>>

\* RetrieveReaderFromRequestBody on the descriptor the exchange will use,
\* before the exchange runs.
RetrieveReader(e) ==
    /\ ex[e].pc = "start"
    /\ ex[e].attempts = 1
    /\ ex[e].retrieved < MaxRetrieves
    /\ ex[e].b.requestInput # Nil
    /\ ex[e].b.requestInput.t = "RequestBody"
    /\ Len(streams) < MaxStreams
    /\ LET x == ex[e]
           q == Len(reqs) + 1
           f == RequestBodyFunc(x.b.requestInput, src, x.fs, heap, bufs, Len(streams) + 1)
           ss == WithMade(streams, f, q, FALSE)
       IN /\ f.err # Panic
          /\ reqs' = Append(reqs, setRequestBodyFunc(ZeroRequest, f))
          /\ streams' = ss
          /\ mats' = Append(mats, Mat(e, "retrieve", q, f, ss, heap))
          /\ ex' = [ex EXCEPT ![e].fs = f.fs, ![e].retrieved = @ + 1,
                              ![e].results = Append(@, Result("retrieve", f.body, f.err))]
    /\ UNCHANGED <<regVars, tlsVars, heap, src, srcAtCall, callerOps, bufs, poolFree>>

\* A body is read: by the caller of RetrieveReaderFromRequestBody before the
\* exchange, or by the transport stage while it sends the request.
ReadBody(e, i) ==
    /\ ex[e].pc \in {"start", "transport"}
    /\ ReadAllStream(i)

\* The client's retry decision after an attempt returned ret: the
\* retry-safety marker is consulted first; only transport-level failures of
\* a replayable body are tried again.
ClientShouldRetry(b, ret, attempts) ==
    /\ ~noRetriesRequestBody(b)
    /\ ret.err # NoErr
    /\ ret.err.what \in {"transport", "status"}
    /\ attempts < MaxAttempts

\* The client makes another physical attempt: a new request through RoundTrip.
ClientRetry(e) ==
    /\ ex[e].pc = "returned"
    /\ ClientShouldRetry(ex[e].b, ex[e].ret, ex[e].attempts)
    /\ reqs' = Append(reqs, ZeroRequest)
    /\ ex' = [ex EXCEPT ![e].pc = "start", ![e].req = Len(reqs) + 1,
                        ![e].attempts = @ + 1, ![e].ev = <<>>,
                        ![e].branch = "", ![e].cleanup = Nil, ![e].setErr = NoErr,
                        ![e].resp = Nil, ![e].respErr = NoErr, ![e].decErr = NoErr,
                        ![e].ret = [resp |-> Nil, err |-> NoErr]]
    /\ UNCHANGED <<regVars, tlsVars, heap, src, srcAtCall, callerOps, streams, mats, bufs, poolFree>>

\* The exchange has ended: the last attempt returned and none follows.
ExchangeEnded(e) ==
    /\ ex[e].pc = "returned"
    /\ ~ClientShouldRetry(ex[e].b, ex[e].ret, ex[e].attempts)

\* ------------------------------------------------------- configurations
Payload == [i \in 1..MaxLen |-> ((i - 1) % MaxByte) + 1]

\* What the caller can pass as the request input: nothing, an object for the
\* encoder, or a RequestBody.
RequestInputs ==
    {Nil} \cup
    {[t |-> "object", enc |-> s] : s \in {<<1>>, Payload}} \cup
    {[t |-> "RequestBody", ctor |-> c] : c \in {"Empty", "InMemory"}} \cup
    StreamDescriptors("StreamOnce") \cup StreamDescriptors("StreamWithReplay")

Encoders == {Nil, [t |-> "encoder", fails |-> FALSE], [t |-> "encoder", fails |-> TRUE]}

Middlewares ==
    {[requestInput |-> i, requestEncoder |-> c, bufferPool |-> p,
      rawOutput |-> r, responseOutput |-> o] :
        i \in RequestInputs, c \in Encoders, p \in BOOLEAN, r \in BOOLEAN, o \in BOOLEAN}

NewExchange(b) ==
    [pc |-> "start", b |-> b, req |-> 1, attempts |-> 1, retrieved |-> 0,
     fs |-> NewFactoryState, results |-> <<>>, ev |-> <<>>, branch |-> "", cleanup |-> Nil,
     setErr |-> NoErr, resp |-> Nil, respErr |-> NoErr, decErr |-> NoErr,
     ret |-> [resp |-> Nil, err |-> NoErr]]

\* One exchange of a client: the payload is in heap[PayloadArr], the
\* in-memory input (when the request input is RequestBodyInMemory) a
\* bytes.Buffer or strings.Reader over it.
Init ==
    /\ heap = <<Payload>>
    /\ \E b \in Middlewares :
          /\ ex = [e \in Exchanges |-> IF e = 1 THEN NewExchange(b) ELSE UnusedExchange]
          /\ src \in IF b.requestInput # Nil /\ b.requestInput.t = "RequestBody"
                        /\ b.requestInput.ctor = "InMemory"
                     THEN {Nil} \cup {[kind |-> k, arr |-> PayloadArr, off |-> 0, len |-> MaxLen] :
                                         k \in {"Buffer", "StringsReader"}}
                     ELSE {Nil}
    /\ srcAtCall = IF src = Nil THEN <<>> ELSE Payload
    /\ callerOps = 0
    /\ streams = <<>>
    /\ reqs = <<ZeroRequest>>
    /\ mats = <<>>
    /\ bufs = <<>>
    /\ poolFree = <<>>
    /\ RegistryIdle
    /\ TLSIdle

Next ==
    \/ RoundTripStart(1)
    \/ RetrieveReader(1)
    \/ TransportGetBody(1)
    \/ \E out \in TransportOutcomes, decErr \in {NoErr, DecodeErr} :
          RoundTripNext(1, out, decErr)
    \/ ClientRetry(1)
    \/ \E i \in 1..Len(streams) : ReadBody(1, i)

\* One exchange through the body middleware, with the client's retries.
Spec == Init /\ [][Next]_vars

\* ------------------------------------------------------------- claims
Count(ev, x) == Cardinality({i \in DOMAIN ev : ev[i] = x})
\* The place of the first x in ev, 0 when there is none.
Index(ev, x) ==
    IF Count(ev, x) = 0 THEN 0
    ELSE CHOOSE i \in DOMAIN ev : ev[i] = x /\ \A j \in 1..(i - 1) : ev[j] # x

Running == {e \in Exchanges : ex[e].pc # "unused"}
IsStreamOnce(b) ==
    /\ b.requestEncoder = Nil
    /\ b.requestInput \in StreamDescriptors("StreamOnce")
\* The materializations of exchange e's descriptor, in order.
MatsOf(e) == SelectSeq(mats, LAMBDA m : m.e = e)

\* C2: an attempt that reached the transport stage and returned (with
\* success, a transport error or cancellation, or a decode failure) ran the
\* cleanup function exactly once, after next.RoundTrip returned and before
\* RoundTrip returned, and with it the Put of the pooled buffer.
C2_CleanupOnce ==
    \A e \in Running :
        (ex[e].pc = "returned" /\ Count(ex[e].ev, "next") > 0) =>
            /\ Count(ex[e].ev, "cleanup") = 1
            /\ Index(ex[e].ev, "nextReturned") < Index(ex[e].ev, "cleanup")
            /\ Index(ex[e].ev, "cleanup") < Index(ex[e].ev, "return")
            /\ ex[e].cleanup.t = "put" => Count(ex[e].ev, "Put") = 1

\* The decoder failed after a transport success, with a pooled buffer held.
C2_Witness ==
    /\ ex[1].pc = "returned"
    /\ ex[1].ret.err = DecodeErr
    /\ ex[1].cleanup.t = "put"
    /\ Count(ex[1].ev, "Put") = 1

\* C3: when RoundTrip has returned, on whatever path, it made as many pool
\* Put calls as pool Get calls.
C3_PutsEqualGets ==
    \A e \in Running :
        ex[e].pc = "returned" => Count(ex[e].ev, "Put") = Count(ex[e].ev, "Get")

\* C5: an exchange whose body is a RequestBodyStreamOnce descriptor makes one
\* physical attempt: a redirect or failure status ends it with that status
\* as the error and no response, and the exchange calls the factory at most
\* once.
C5_StreamOnceSingleAttempt ==
    \A e \in Running :
        IsStreamOnce(ex[e].b) =>
            /\ ex[e].attempts = 1
            /\ Len(SelectSeq(MatsOf(e), LAMBDA m : m.by = "exchange")) <= 1
            /\ (ex[e].pc = "returned" /\ ex[e].respErr # NoErr) =>
                  /\ ex[e].ret = [resp |-> Nil, err |-> ex[e].respErr]
                  /\ ExchangeEnded(e)

\* The server answered the single-use body with a redirect.
C5_Witness ==
    /\ IsStreamOnce(ex[1].b)
    /\ ex[1].b.requestInput.fac = "guard"
    /\ ex[1].pc = "returned"
    /\ ex[1].ret.err = StatusErr(307)
    /\ ex[1].fs.calls = 1
    /\ ExchangeEnded(1)

\* C6: two materializations of one single-use descriptor never give two
\* valid full-content streams: when the first gave a stream that yielded
\* the full content, the second ended in an error, or in no stream, or in a
\* stream that does not yield the full content once more (it is the reader
\* already read, or it holds something else).
C6_NoSecondFullStream ==
    \A e \in Running :
        IsStreamOnce(ex[e].b) =>
            \A i, j \in 1..Len(MatsOf(e)) :
                LET m1 == MatsOf(e)[i]
                    m2 == MatsOf(e)[j]
                IN (/\ i < j
                    /\ m1.err = NoErr
                    /\ m1.body # Nil
                    /\ streams[m1.body.id].got = Payload) =>
                        \/ m2.err # NoErr
                        \/ m2.body = Nil
                        \/ m2.body = m1.body
                        \/ streams[m2.body.id].got # Payload

\* C7: noRetriesRequestBody() is true exactly for no encoder and a
\* RequestBodyStreamOnce descriptor as input; after a successful
\* materialization the request has no GetBody when it is true, and has a
\* GetBody or the empty body of length 0 when it is false.
C7_RetryMarker ==
    \A e \in Running :
        LET b == ex[e].b
            req == reqs[ex[e].req]
        IN /\ noRetriesRequestBody(b) <=>
                 (b.requestEncoder = Nil /\ b.requestInput \in StreamDescriptors("StreamOnce"))
           /\ (ex[e].pc \in {"transport", "returned"} /\ ex[e].setErr = NoErr) =>
                 IF noRetriesRequestBody(b)
                 THEN req.GetBody = Nil
                 ELSE \/ req.GetBody # Nil
                      \/ (req.Body = NoBody /\ req.ContentLength = 0)

\* A single-use stream is on the request, and no GetBody.
C7_Witness ==
    /\ ex[1].pc = "transport"
    /\ noRetriesRequestBody(ex[1].b)
    /\ reqs[ex[1].req].Body.t = "stream"
    /\ reqs[ex[1].req].GetBody = Nil

\* C8: every materialization of a RequestBodyStreamOnce descriptor over a
\* factory of one of the three shapes called the factory once, whether the
\* factory failed or not, and left the request without GetBody.
C8_FactoryOncePerMaterialization ==
    \A e \in Running :
        (IsStreamOnce(ex[e].b) /\ ex[e].b.requestInput.fac # "nilfunc") =>
            /\ ex[e].fs.calls = Len(MatsOf(e))
            /\ \A i \in 1..Len(MatsOf(e)) : reqs[MatsOf(e)[i].req].GetBody = Nil

\* The descriptor was materialized twice; the second call of the factory
\* (of the three-value shape) failed.
C8_Witness ==
    /\ IsStreamOnce(ex[1].b)
    /\ ex[1].b.requestInput.shape = 3
    /\ Len(MatsOf(1)) = 2
    /\ MatsOf(1)[1].err = NoErr
    /\ MatsOf(1)[2].err = FactoryErr
    /\ ex[1].fs.calls = 2

\* C9: when setRequestBody failed, RoundTrip returned that error and no
\* response without calling next.RoundTrip; when it succeeded, RoundTrip
\* called next.RoundTrip exactly once.
C9_NoTransportOnConstructionFailure ==
    \A e \in Running :
        /\ (ex[e].pc \in {"transport", "returned"} /\ ex[e].setErr # NoErr) =>
              /\ ex[e].pc = "returned"
              /\ ex[e].ret = [resp |-> Nil, err |-> ex[e].setErr]
              /\ Count(ex[e].ev, "next") = 0
        /\ (ex[e].pc \in {"transport", "returned"} /\ ex[e].setErr = NoErr) =>
              Count(ex[e].ev, "next") = 1

\* The stream factory failed and RoundTrip returned its error.
C9_Witness ==
    /\ ex[1].pc = "returned"
    /\ ex[1].setErr = FactoryErr
    /\ ex[1].ret.err = FactoryErr
    /\ Count(ex[1].ev, "next") = 0

\* C10: setRequestBody picks Empty for a nil input; else, with an encoder,
\* the encoder's body, through one pooled buffer exactly when a pool is
\* configured, also for an input that is a RequestBody; else the input
\* RequestBody itself; else the configuration error.  Only the encoder
\* branch with a pool takes a buffer.
C10_BodySourceOrder ==
    \A e \in Running :
        ex[e].pc \in {"transport", "returned", "panicked"} =>
            LET b == ex[e].b
                ev == ex[e].ev
                req == reqs[ex[e].req]
                enc == Count(ev, "Encode") + Count(ev, "Marshal")
                own == Len(SelectSeq(MatsOf(e), LAMBDA m : m.req = ex[e].req))
            IN /\ b.requestInput = Nil =>
                    /\ enc = 0 /\ own = 0 /\ ex[e].setErr = NoErr
                    /\ req.Body = NoBody /\ req.ContentLength = 0 /\ req.GetBody = Nil
               /\ (b.requestInput # Nil /\ b.requestEncoder # Nil) =>
                    /\ own = 0
                    /\ IF b.bufferPool
                       THEN Count(ev, "Encode") = 1 /\ Count(ev, "Marshal") = 0
                            /\ Count(ev, "Get") = 1 /\ Index(ev, "Get") < Index(ev, "Encode")
                       ELSE Count(ev, "Marshal") = 1 /\ Count(ev, "Encode") = 0
                    /\ ex[e].setErr = NoErr =>
                          /\ req.GetBody # Nil /\ req.GetBody.t = "raw"
                          /\ req.ContentLength = Len(Encoding(b.requestInput))
               /\ (b.requestInput # Nil /\ b.requestEncoder = Nil
                     /\ b.requestInput.t = "RequestBody") =>
                    enc = 0 /\ own = 1 /\ ex[e].setErr # ConfigErr
               /\ (b.requestInput # Nil /\ b.requestEncoder = Nil
                     /\ b.requestInput.t # "RequestBody") =>
                    enc = 0 /\ own = 0 /\ ex[e].setErr = ConfigErr
               /\ Count(ev, "Get") = (IF b.requestInput # Nil /\ b.requestEncoder # Nil
                                         /\ b.bufferPool THEN 1 ELSE 0)

\* An encoder and a pool are configured and the input is itself a
\* RequestBody: the encoder's body is used, through a pooled buffer.
C10_Witness ==
    /\ ex[1].pc = "transport"
    /\ ex[1].b.requestInput # Nil
    /\ ex[1].b.requestInput.t = "RequestBody"
    /\ ex[1].b.requestEncoder # Nil
    /\ ex[1].b.bufferPool
    /\ Count(ex[1].ev, "Get") = 1
    /\ reqs[ex[1].req].GetBody.t = "raw"

\* Attempts of RoundTrip that reached next.RoundTrip and returned.
Finished == {e \in Running : ex[e].pc = "returned" /\ Count(ex[e].ev, "nextReturned") > 0}

\* The conditions under which readResponse is to call the decoder.
ShouldDecode(e) ==
    /\ ex[e].respErr = NoErr
    /\ ~ex[e].b.rawOutput
    /\ ex[e].b.responseOutput
    /\ ex[e].resp # Nil
    /\ ex[e].resp.Body # Nil
    /\ ex[e].resp.ContentLength # 0

\* C11: the decoder is called exactly when the transport returned no error,
\* rawOutput is off, an output target is set, response and body are present
\* and the content length is not 0 (also when it is -1); it is called at most
\* once, not at all by an attempt that never reached the transport or that
\* the client tries again, and when it was skipped without a transport error
\* RoundTrip returns no error.
C11_DecodeIff ==
    \A e \in Running :
        /\ Count(ex[e].ev, "Decode") <= 1
        /\ e \notin Finished => Count(ex[e].ev, "Decode") = 0
        /\ e \in Finished =>
              /\ Count(ex[e].ev, "Decode") = 1 <=> ShouldDecode(e)
              /\ (~ShouldDecode(e) /\ ex[e].respErr = NoErr) => ex[e].ret.err = NoErr
              /\ ClientShouldRetry(ex[e].b, ex[e].ret, ex[e].attempts) =>
                    Count(ex[e].ev, "Decode") = 0

\* A response of unknown length (-1) was decoded.
C11_Witness ==
    /\ 1 \in Finished
    /\ ex[1].resp # Nil
    /\ ex[1].resp.ContentLength = -1
    /\ Count(ex[1].ev, "Decode") = 1
    /\ ex[1].ret.err = NoErr

\* C12: when next.RoundTrip returned an error, RoundTrip returns that error
\* and a nil response and the decoder is not called, with rawOutput set or
\* not and whether or not the transport returned a response with the error.
C12_TransportErrorPropagates ==
    \A e \in Finished :
        ex[e].respErr # NoErr =>
            /\ ex[e].ret = [resp |-> Nil, err |-> ex[e].respErr]
            /\ Count(ex[e].ev, "Decode") = 0

\* The transport failed in raw mode, a response beside its error.
C12_Witness ==
    /\ 1 \in Finished
    /\ ex[1].b.rawOutput
    /\ ex[1].b.responseOutput
    /\ ex[1].respErr = TransportErr
    /\ ex[1].resp # Nil
    /\ ex[1].ret = [resp |-> Nil, err |-> TransportErr]

\* C13: when the transport succeeded and the decoder failed, RoundTrip
\* returns the decoder's error and no response, having called the decoder
\* once and next.RoundTrip once.
C13_DecodeFailureTerminal ==
    \A e \in Finished :
        (Count(ex[e].ev, "Decode") > 0 /\ ex[e].decErr # NoErr) =>
            /\ ex[e].respErr = NoErr
            /\ ex[e].ret = [resp |-> Nil, err |-> ex[e].decErr]
            /\ Count(ex[e].ev, "Decode") = 1
            /\ Count(ex[e].ev, "next") = 1
            /\ Index(ex[e].ev, "Decode") > Index(ex[e].ev, "nextReturned")
            /\ ex[e].ev[Len(ex[e].ev)] = "return"
            /\ Index(ex[e].ev, "return") = Index(ex[e].ev, "Decode") + 1

\* The decoder failed on a response the transport delivered without error.
C13_Witness ==
    /\ 1 \in Finished
    /\ ex[1].resp # Nil
    /\ ex[1].respErr = NoErr
    /\ ex[1].decErr = DecodeErr
    /\ ex[1].ret = [resp |-> Nil, err |-> DecodeErr]

\* C14: with rawOutput set and no transport error, RoundTrip returns the
\* response next.RoundTrip produced as it was produced (the body not read,
\* not closed, not replaced) and no error, and the decoder is not called,
\* whatever the output target and the content length are.
C14_RawUntouched ==
    \A e \in Finished :
        (ex[e].b.rawOutput /\ ex[e].respErr = NoErr) =>
            /\ ex[e].ret = [resp |-> ex[e].resp, err |-> NoErr]
            /\ Count(ex[e].ev, "Decode") = 0
            /\ (ex[e].resp # Nil /\ ex[e].resp.Body # Nil) =>
                  ex[e].ret.resp.Body = RespBody

\* Raw mode with an output target and a response body of non-zero length.
C14_Witness ==
    /\ 1 \in Finished
    /\ ex[1].b.rawOutput
    /\ ex[1].b.responseOutput
    /\ ex[1].respErr = NoErr
    /\ ex[1].resp # Nil
    /\ ex[1].resp.ContentLength = MaxLen
    /\ ex[1].resp.Body = RespBody
    /\ ex[1].ret.resp = ex[1].resp

\* The requests RetrieveReaderFromRequestBody made for itself.
RetrievedReqs == {mats[i].req : i \in {j \in DOMAIN mats : mats[j].by = "retrieve"}}
\* The reader objects made for the requests of the exchanges' attempts.
AttemptStreams == {i \in DOMAIN streams : streams[i].req \notin RetrievedReqs}
\* All that reader object i yields: what was read from it and what it holds.
Yields(i) == streams[i].got \o Unread(heap, streams[i].r)

\* C15: a materialization of an encoder-produced descriptor (Marshal, or
\* Encode into a pooled buffer) calls the encoder once; the length set on the
\* request is the number of bytes the first body yields, and every GetBody
\* stream yields the same bytes, the encoder still called once.
C15_EncoderOnceAndReplay ==
    \A e \in Running :
        (/\ ex[e].b.requestInput # Nil
         /\ ex[e].b.requestEncoder # Nil
         /\ ex[e].pc \in {"transport", "returned"}) =>
            /\ Count(ex[e].ev, "Encode") + Count(ex[e].ev, "Marshal") = 1
            /\ ex[e].setErr = NoErr =>
                  /\ reqs[ex[e].req].ContentLength = Len(Encoding(ex[e].b.requestInput))
                  /\ \A i \in AttemptStreams :
                        /\ Yields(i) = Encoding(ex[e].b.requestInput)
                        /\ Len(Yields(i)) = reqs[streams[i].req].ContentLength

\* The encoder wrote into a pooled buffer; the first body and a GetBody
\* stream of the same request were both read to their ends.
C15_Witness ==
    /\ ex[1].pc = "transport"
    /\ ex[1].branch = "encoderBuffer"
    /\ Encoding(ex[1].b.requestInput) = Payload
    /\ \E i, j \in AttemptStreams :
          /\ i # j
          /\ streams[i].req = ex[1].req /\ streams[j].req = ex[1].req
          /\ ~streams[i].replay /\ streams[j].replay
          /\ streams[i].got = Payload /\ streams[j].got = Payload

\* ------------------------------------- concurrent exchanges on one pool
\* bodyMiddleware.setRequestBody, lines 57-68, with an encoder and a pool:
\* buf := b.bufferPool.Get() and the cleanup that puts it back.  Another
\* exchange may run between this and the encoding.
SetRequestBodyGet(e) ==
    /\ ex[e].pc = "start"
    /\ ex[e].b.requestInput # Nil
    /\ ex[e].b.requestEncoder # Nil
    /\ ex[e].b.bufferPool
    /\ LET g == PoolGet(poolFree, bufs, heap)
       IN /\ poolFree' = g.free
          /\ bufs' = g.bs
          /\ heap' = g.h
          /\ ex' = [ex EXCEPT ![e].pc = "got", ![e].branch = "encoderBuffer",
                              ![e].cleanup = PutCleanup(g.buf), ![e].ev = <<"Get">>]
    /\ UNCHANGED <<regVars, tlsVars, src, srcAtCall, callerOps, streams, reqs, mats>>

\* setRequestBody, lines 69 and 83, and RoundTrip up to the call of
\* next.RoundTrip: the encoder writes into the buffer taken, the request is
\* set up, and an error is returned without running the cleanup.
SetRequestBodyEncode(e) ==
    /\ ex[e].pc = "got"
    /\ Len(streams) < MaxStreams
    /\ LET x == ex[e]
           f == RequestBodyEncoderObjectBufferFunc(
                    x.b.requestInput, x.b.requestEncoder, x.cleanup.buf, x.fs, heap, bufs,
                    Len(streams) + 1)
           pc2 == RoundTripAfterSetRequestBody(f.err)
       IN /\ reqs' = [reqs EXCEPT ![x.req] = setRequestBodyFunc(@, f)]
          /\ streams' = WithMade(streams, f, x.req, FALSE)
          /\ heap' = f.h
          /\ bufs' = f.bs
          /\ ex' = [ex EXCEPT ![e].pc = pc2,
                              ![e].setErr = f.err,
                              ![e].ev = @ \o f.ev \o
                                        (IF pc2 = "returned" THEN <<"return">> ELSE <<"next">>),
                              ![e].ret = IF pc2 = "returned"
                                         THEN [resp |-> Nil, err |-> f.err] ELSE @]
    /\ UNCHANGED <<regVars, tlsVars, src, srcAtCall, callerOps, mats, poolFree>>

\* req.GetBody() on the request of an attempt that has returned: the request
\* is still referenced (by the response, by the caller, by the transport's
\* write loop) and its GetBody closure still holds raw.
LateGetBody(e) ==
    /\ ex[e].pc = "returned"
    /\ reqs[ex[e].req].GetBody # Nil
    /\ reqs[ex[e].req].GetBody.t = "raw"
    /\ Len(streams) < MaxStreams
    /\ LET gb == reqs[ex[e].req].GetBody
       IN streams' = Append(streams,
                            NewStream(RawReader(gb.arr, gb.off, gb.len), ex[e].req, TRUE))
    /\ UNCHANGED <<regVars, tlsVars, heap, src, srcAtCall, callerOps, reqs, mats, bufs, poolFree, ex>>

\* The objects the exchanges on the pool send, by what the encoder makes of
\* them, and the middlewares: an encoder and the pool, typed output.
PoolInputs == {[t |-> "object", enc |-> s] : s \in {<<1>>, <<MaxByte>>, Payload}}
PoolMiddlewares ==
    {[requestInput |-> i, requestEncoder |-> c, bufferPool |-> TRUE,
      rawOutput |-> FALSE, responseOutput |-> TRUE] :
        i \in PoolInputs, c \in Encoders \ {Nil}}
\* What the transport returns to them: a failure, or a response to decode.
PoolOutcomes ==
    {[resp |-> Nil, err |-> TransportErr],
     [resp |-> [t |-> "resp", ContentLength |-> MaxLen, Body |-> RespBody], err |-> NoErr]}

InitPool ==
    /\ heap = <<Payload>>
    /\ \E b1, b2 \in PoolMiddlewares :
          ex = [e \in Exchanges |->
                  IF e = 1 THEN NewExchange(b1) ELSE [NewExchange(b2) EXCEPT !.req = 2]]
    /\ src = Nil
    /\ srcAtCall = <<>>
    /\ callerOps = 0
    /\ streams = <<>>
    /\ reqs = <<ZeroRequest, ZeroRequest>>
    /\ mats = <<>>
    /\ bufs = <<>>
    /\ poolFree = <<>>
    /\ RegistryIdle
    /\ TLSIdle

NextPool ==
    \/ \E e \in Exchanges : SetRequestBodyGet(e)
    \/ \E e \in Exchanges : SetRequestBodyEncode(e)
    \/ \E e \in Exchanges : TransportGetBody(e)
    \/ \E e \in Exchanges, out \in PoolOutcomes, decErr \in {NoErr, DecodeErr} :
          RoundTripNext(e, out, decErr)
    \/ \E e \in Exchanges : LateGetBody(e)
    \/ \E i \in 1..Len(streams) : ReadAllStream(i)

\* Two exchanges of one client, each with its own request, run concurrently
\* on the client's buffer pool.
SpecPool == InitPool /\ [][NextPool]_vars

\* C16: every stream of a request whose body the encoder wrote into a pooled
\* buffer (the first body and each GetBody result) yields the bytes of the
\* first materialization, also after the cleanup put the buffer back and
\* another exchange took it and encoded into it.
C16_PooledReplayIdentical ==
    \A e \in Running :
        (ex[e].branch = "encoderBuffer" /\ ex[e].setErr = NoErr
           /\ ex[e].pc \in {"transport", "returned"}) =>
            \A i \in DOMAIN streams :
                streams[i].req = ex[e].req => Yields(i) = Encoding(ex[e].b.requestInput)

\* Exchange e took buffer b from the pool and has not put it back.
Holds(e, b) ==
    /\ ex[e].pc \in {"got", "transport", "returned"}
    /\ ex[e].cleanup # Nil
    /\ ex[e].cleanup.t = "put"
    /\ ex[e].cleanup.buf = b
    /\ Count(ex[e].ev, "Put") = 0

HeldExclusively ==
    \A b \in DOMAIN bufs :
        /\ \A e1, e2 \in Running : (Holds(e1, b) /\ Holds(e2, b)) => e1 = e2
        /\ (\E e \in Running : Holds(e, b)) => \A k \in DOMAIN poolFree : poolFree[k] # b

\* A step that changes buffer b or the cells of its array is a step of the
\* one exchange that holds b.
WritesOwnBuffer ==
    \A b \in DOMAIN bufs :
        (bufs'[b] # bufs[b] \/ heap'[bufs[b].arr] # heap[bufs[b].arr]) =>
            \E e \in Running :
                /\ Holds(e, b)
                /\ ex'[e] # ex[e]
                /\ \A o \in Running \ {e} : ex'[o] = ex[o]

\* C17: with exchanges running concurrently on one pool, no two of them hold
\* the same buffer between Get and the cleanup's Put, a held buffer is not
\* in the pool, and a buffer is written (by Encode) and reset (by Put) only
\* in steps of the exchange holding it.
C17_BufferExclusive == []HeldExclusively /\ [][WritesOwnBuffer]_vars

\* Both exchanges are at the transport, each with a buffer it encoded into,
\* one of them the buffer an earlier Put left in the pool or a new one.
C17_Witness ==
    /\ ex[1].pc = "transport" /\ ex[2].pc = "transport"
    /\ Holds(1, ex[1].cleanup.buf) /\ Holds(2, ex[2].cleanup.buf)
    /\ ex[1].cleanup.buf # ex[2].cleanup.buf
    /\ bufs[ex[1].cleanup.buf].len > 0 /\ bufs[ex[2].cleanup.buf].len > 0

\* An exchange whose body is the caller's stream descriptor of constructor
\* ctor, over a factory that is a function.
UsesStream(e, ctor) ==
    /\ ex[e].b.requestEncoder = Nil
    /\ ex[e].b.requestInput \in StreamDescriptors(ctor)
    /\ ex[e].b.requestInput.fac # "nilfunc"

\* C18: for a RequestBodyStreamWithReplay descriptor every materialization
\* and every GetBody call called the factory once, and what each handed to
\* its caller is what the factory returned in that very call: the reader
\* and the error of the k-th call, not those of an earlier one.
C18_ReplayCallsFactoryAfresh ==
    \A e \in Running :
        UsesStream(e, "StreamWithReplay") =>
            /\ ex[e].fs.calls = Len(ex[e].results)
            /\ Len(ex[e].fs.outs) = Len(ex[e].results)
            /\ \A k \in DOMAIN ex[e].results :
                  /\ ex[e].results[k].body = ex[e].fs.outs[k].body
                  /\ ex[e].results[k].err = ex[e].fs.outs[k].err

\* The factory failed for the first materialization and gave a reader to
\* the second and to a GetBody call; another factory gave a reader first
\* and an error to the GetBody call.
C18_Witness ==
    /\ UsesStream(1, "StreamWithReplay")
    /\ Len(ex[1].results) = 3
    /\ ex[1].results[1].err = FactoryErr
    /\ ex[1].results[2].err = NoErr /\ ex[1].results[2].body # Nil
    /\ ex[1].results[3].by = "replay"
    /\ ex[1].results[3].err = NoErr /\ ex[1].results[3].body # Nil

\* C19: a stream descriptor (of either constructor) over a nil factory of
\* any of the three shapes materializes as the Empty body: http.NoBody,
\* length 0, no GetBody, no error, and RoundTrip goes on to the transport.
C19_NilFactoryIsEmpty ==
    \A e \in Running :
        (/\ ex[e].b.requestEncoder = Nil
         /\ ex[e].b.requestInput \in
               StreamDescriptors("StreamOnce") \cup StreamDescriptors("StreamWithReplay")
         /\ ex[e].b.requestInput.fac = "nilfunc"
         /\ ex[e].pc # "start") =>
            /\ ex[e].pc \in {"transport", "returned"}
            /\ ex[e].setErr = NoErr
            /\ reqs[ex[e].req] = [ContentLength |-> 0, Body |-> NoBody, GetBody |-> Nil]
            /\ ex[e].fs.calls = 0

\* C20: a successful materialization of a stream descriptor (of either
\* constructor) sets the length to -1 for the shapes without a length and
\* to the factory's length for the three-value shape when the factory gave
\* a reader, and to 0 with http.NoBody and no GetBody when it gave none,
\* whatever length it reported.
C20_StreamLengths ==
    \A e \in Running :
        (UsesStream(e, "StreamOnce") \/ UsesStream(e, "StreamWithReplay")) =>
            \A i \in 1..Len(MatsOf(e)) :
                LET m == MatsOf(e)[i]
                    d == ex[e].b.requestInput
                    req == reqs[m.req]
                IN m.err = NoErr =>
                     IF m.body = Nil
                     THEN req = [ContentLength |-> 0, Body |-> NoBody, GetBody |-> Nil]
                     ELSE /\ req.ContentLength = (IF d.shape = 3 THEN d.flen ELSE -1)
                          /\ req.Body = m.body
                          /\ req.GetBody # Nil <=> d.ctor = "StreamWithReplay"

\* A factory of the three-value shape reported a length and no reader.
C20_Witness ==
    /\ UsesStream(1, "StreamWithReplay")
    /\ ex[1].b.requestInput.shape = 3
    /\ ex[1].b.requestInput.flen = MaxLen
    /\ ex[1].pc = "transport"
    /\ Len(MatsOf(1)) = 1
    /\ MatsOf(1)[1].err = NoErr /\ MatsOf(1)[1].body = Nil
    /\ reqs[ex[1].req] = [ContentLength |-> 0, Body |-> NoBody, GetBody |-> Nil]

\* ------------------------------------------- descriptors used directly
\* A caller holds a RequestBody and calls setRequestBody with it on a
\* request of its own (as RetrieveReaderFromRequestBody does), any number
\* of times: reqs lists the request before the first call and after each.
SetRequestBodyOnto(e) ==
    /\ ex[e].pc = "start"
    /\ Len(mats) < MaxReqs
    /\ Len(streams) < MaxStreams
    /\ LET x == ex[e]
           q == Len(reqs) + 1
           f == RequestBodyFunc(x.b.requestInput, src, x.fs, heap, bufs, Len(streams) + 1)
           ss == WithMade(streams, f, q, FALSE)
       IN /\ f.err # Panic
          /\ reqs' = Append(reqs, setRequestBodyFunc(reqs[Len(reqs)], f))
          /\ streams' = ss
          /\ heap' = f.h
          /\ bufs' = f.bs
          /\ mats' = Append(mats, Mat(e, "retrieve", q, f, ss, f.h))
          /\ ex' = [ex EXCEPT ![e].fs = f.fs,
                              ![e].results = Append(@, Result("retrieve", f.body, f.err))]
    /\ UNCHANGED <<regVars, tlsVars, src, srcAtCall, callerOps, poolFree>>

\* RequestBodyEncoderObject(input, encoder) and
\* RequestBodyEncoderObjectBuffer(input, encoder, buffer), the buffer being
\* the caller's bufs[1].
EncoderDescriptors ==
    {[t |-> "RequestBody", ctor |-> c, input |-> [t |-> "object", enc |-> s],
      encoder |-> n, buffer |-> 1] :
        c \in {"EncoderObject", "EncoderObjectBuffer"}, s \in {<<1>>, Payload},
        n \in Encoders \ {Nil}}

\* The descriptors a caller can build, over factories that are functions.
Descriptors ==
    {[t |-> "RequestBody", ctor |-> "Empty"]} \cup EncoderDescriptors \cup
    {d \in StreamDescriptors("StreamOnce") \cup StreamDescriptors("StreamWithReplay") :
        d.fac # "nilfunc"}

\* The request before the first call: new, or one that carries a body.
PriorBody == [t |-> "prior"]
PriorRequests ==
    {ZeroRequest, [ContentLength |-> MaxLen, Body |-> PriorBody, GetBody |-> PriorBody]}

\* What the caller's buffer holds before the first call: nothing, or bytes.
InitDescriptor ==
    /\ \E d \in Descriptors :
          ex = [e \in Exchanges |->
                  IF e = 1
                  THEN NewExchange([requestInput |-> d, requestEncoder |-> Nil,
                                    bufferPool |-> FALSE, rawOutput |-> FALSE,
                                    responseOutput |-> FALSE])
                  ELSE UnusedExchange]
    /\ \E pre \in {<<>>, <<MaxByte>>} :
          /\ heap = <<Payload, pre \o Zeros(MaxSpare)>>
          /\ bufs = <<[kind |-> "Buffer", arr |-> 2, off |-> 0, len |-> Len(pre)]>>
    /\ \E r \in PriorRequests : reqs = <<r>>
    /\ src = Nil
    /\ srcAtCall = <<>>
    /\ callerOps = 0
    /\ streams = <<>>
    /\ mats = <<>>
    /\ poolFree = <<>>
    /\ RegistryIdle
    /\ TLSIdle

NextDescriptor ==
    \/ SetRequestBodyOnto(1)
    \/ \E i \in 1..Len(streams) : ReadAllStream(i)

\* One descriptor, materialized by its holder onto one request, repeatedly.
SpecDescriptor == InitDescriptor /\ [][NextDescriptor]_vars

\* C23: a call of setRequestBody whose descriptor function returned an error
\* leaves ContentLength, Body and GetBody of the request as they were before
\* the call.
C23_FailedMaterializationLeavesRequest ==
    \A k \in DOMAIN mats :
        mats[k].err # NoErr => reqs[mats[k].req] = reqs[mats[k].req - 1]

\* A first call set a stream on a request that carried a body; the second
\* call failed and the request still has the first call's fields.
C23_Witness ==
    /\ Len(mats) = 2
    /\ reqs[1].Body = PriorBody
    /\ mats[1].err = NoErr /\ mats[1].body # Nil
    /\ mats[2].err = FactoryErr
    /\ reqs[3] = reqs[2]
    /\ reqs[3].Body = mats[1].body
    /\ reqs[3] # reqs[1]

\* C25: every successful materialization of a RequestBodyEncoderObjectBuffer
\* descriptor (the first or a later one, into an empty buffer or one that
\* holds bytes) sets the length of one encoding of the object and a body
\* that holds exactly that encoding.
C25_EncodeIntoBufferRepeatable ==
    \A e \in Running :
        ex[e].b.requestInput.ctor = "EncoderObjectBuffer" =>
            \A i \in 1..Len(MatsOf(e)) :
                LET m == MatsOf(e)[i]
                    enc == Encoding(ex[e].b.requestInput.input)
                IN m.err = NoErr =>
                     /\ reqs[m.req].ContentLength = Len(enc)
                     /\ m.handed = enc

\* A step leaves the caller's source (the value and the cells of its array)
\* and what every reader object handed out so far yields as they were.
SourceAndStreamsKept ==
    /\ src' = src
    /\ src # Nil => heap'[src.arr] = heap[src.arr]
    /\ \A i \in DOMAIN streams :
          streams'[i].got \o Unread(heap', streams'[i].r) = Yields(i)

\* C24: materializing a RequestBodyInMemory descriptor, calling GetBody and
\* reading any of the streams changes neither the caller's source buffer
\* (content, read position) nor what any other stream yields.
C24_InMemoryFrame == [][SourceAndStreamsKept]_vars

\* Over a bytes.Buffer with unread bytes: one stream was read to its end,
\* a second one not at all, and the source still holds all its bytes.
C24_Witness ==
    /\ src # Nil
    /\ src.kind = "Buffer"
    /\ Len(srcAtCall) = MaxLen
    /\ Len(streams) = 2
    /\ streams[1].got = srcAtCall
    /\ streams[2].got = <<>>
    /\ Unread(heap, streams[2].r) = srcAtCall
    /\ Unread(heap, src) = srcAtCall

\* ==================================================== error-type registry
MaxRegCalls == 3      \* calls made on the decoder

\* Error names, and the Go types: for each, whether the pointer to it
\* implements Error.  GenericError is reflect.TypeOf(genericError{}).
ErrorNames == {"A", "B"}
ErrorTypes == {[id |-> 1, impl |-> TRUE], [id |-> 2, impl |-> TRUE], [id |-> 3, impl |-> FALSE]}
GenericError == [id |-> 0, impl |-> TRUE]
Goroutines == {1, 2}

AlreadyRegistered(name, existing) ==
    [t |-> "err", what |-> "already registered", name |-> name, as |-> existing]
NotAnError(typ) == [t |-> "err", what |-> "does not implement Error", typ |-> typ]

\* d.registry[name], comma-ok form.
Registered(reg, name) == name \in DOMAIN reg
\* d.registry[name] = typ.
StoreType(reg, name, typ) ==
    [n \in DOMAIN reg \cup {name} |-> IF n = name THEN typ ELSE reg[n]]

\* ReflectTypeConjureErrorDecoder.RegisterErrorType, lines 50-55: the error
\* it returns before it would write, or none.
registerErrorTypeCheckOverwrites(reg, name, typ) ==
    IF ~typ.impl THEN NotAnError(typ) ELSE NoErr
registerErrorTypeCheck(reg, name, typ) ==
    IF Registered(reg, name) THEN AlreadyRegistered(name, reg[name])
    ELSE IF ~typ.impl THEN NotAnError(typ)
    ELSE NoErr

\* A call that returned: RegisterErrorType of the decoder (global: through
\* the package-level function, which panics on an error), or
\* DecodeConjureError with the type it instantiated.
RegCall(g, global, name, typ, err) ==
    [op |-> "register", g |-> g, global |-> global, name |-> name, typ |-> typ,
     err |-> err, panicked |-> global /\ err # NoErr]
DecCall(g, name, typ) ==
    [op |-> "decode", g |-> g, global |-> FALSE, name |-> name, typ |-> typ,
     err |-> NoErr, panicked |-> FALSE]

IdleGoroutine == [pc |-> "idle"]
\* Another goroutine is between its read of the map and its write.
OthersInCall(g) == \E o \in Goroutines \ {g} : gor[o].pc # "idle"
\* An unsynchronised map access that overlaps another goroutine's call is a
\* data race: the access goes through, or the runtime stops the process.
RaceOutcomes(g) == IF OthersInCall(g) THEN {"ok", "fatal"} ELSE {"ok"}

\* Lines 50-55 of a call RegisterErrorType(name, typ) by goroutine g: the
\* lookup and the interface check; an error is returned right away.
RegisterLookup(g, global, name, typ) ==
    /\ ~fatal
    /\ gor[g].pc = "idle"
    /\ Len(regCalls) + Cardinality({o \in Goroutines : gor[o].pc # "idle"}) < MaxRegCalls
    /\ LET err == registerErrorTypeCheck(registry, name, typ)
       IN IF err # NoErr
          THEN /\ regCalls' = Append(regCalls, RegCall(g, global, name, typ, err))
               /\ gor' = gor
          ELSE /\ regCalls' = regCalls
               /\ gor' = [gor EXCEPT ![g] = [pc |-> "write", global |-> global,
                                              name |-> name, typ |-> typ]]
    /\ UNCHANGED <<registry, fatal>>
    /\ UNCHANGED <<bodyVars, tlsVars>>

\* Lines 56-57: d.registry[name] = typ; return nil.
RegisterWrite(g) ==
    /\ ~fatal
    /\ gor[g].pc = "write"
    /\ \E outcome \in RaceOutcomes(g) :
          /\ fatal' = (outcome = "fatal")
          /\ registry' = IF outcome = "ok"
                          THEN StoreType(registry, gor[g].name, gor[g].typ) ELSE registry
          /\ regCalls' = IF outcome = "ok"
                          THEN Append(regCalls, RegCall(g, gor[g].global, gor[g].name,
                                                        gor[g].typ, NoErr))
                          ELSE regCalls
    /\ gor' = [gor EXCEPT ![g] = IdleGoroutine]
    /\ UNCHANGED <<bodyVars, tlsVars>>

\* DecodeConjureError(errorName, body), lines 61-66: the type instantiated.
DecodeConjureError(g, name) ==
    /\ ~fatal
    /\ gor[g].pc = "idle"
    /\ Len(regCalls) + Cardinality({o \in Goroutines : gor[o].pc # "idle"}) < MaxRegCalls
    /\ \E outcome \in RaceOutcomes(g) :
          /\ fatal' = (outcome = "fatal")
          /\ regCalls' = IF outcome = "ok"
                          THEN Append(regCalls,
                                      DecCall(g, name, IF Registered(registry, name)
                                                       THEN registry[name] ELSE GenericError))
                          ELSE regCalls
    /\ UNCHANGED <<registry, gor>>
    /\ UNCHANGED <<bodyVars, tlsVars>>

\* The body middleware is not in use.
BodyIdle ==
    /\ heap = <<>>
    /\ src = Nil
    /\ srcAtCall = <<>>
    /\ callerOps = 0
    /\ streams = <<>>
    /\ reqs = <<>>
    /\ mats = <<>>
    /\ bufs = <<>>
    /\ poolFree = <<>>
    /\ ex = [e \in Exchanges |-> UnusedExchange]

\* NewReflectTypeConjureErrorDecoder(): an empty map.
InitRegistry ==
    /\ registry = <<>>
    /\ gor = [g \in Goroutines |-> IdleGoroutine]
    /\ regCalls = <<>>
    /\ fatal = FALSE
    /\ BodyIdle
    /\ TLSIdle

\* One goroutine uses the decoder: its calls follow one another.
NextRegistrySeq ==
    \/ \E global \in BOOLEAN, name \in ErrorNames, typ \in ErrorTypes :
          RegisterLookup(1, global, name, typ)
    \/ RegisterWrite(1)
    \/ \E name \in ErrorNames : DecodeConjureError(1, name)

SpecRegistrySeq == InitRegistry /\ [][NextRegistrySeq]_vars

\* Several goroutines use the decoder at once.
NextRegistry ==
    \/ \E g \in Goroutines, name \in ErrorNames, typ \in ErrorTypes :
          RegisterLookup(g, FALSE, name, typ)
    \/ \E g \in Goroutines : RegisterWrite(g)
    \/ \E g \in Goroutines, name \in ErrorNames : DecodeConjureError(g, name)

SpecRegistry == InitRegistry /\ [][NextRegistry]_vars

\* The registrations among the first k calls that succeeded for name.
Successes(k, name) ==
    {j \in 1..k : /\ regCalls[j].op = "register" /\ regCalls[j].name = name
                  /\ regCalls[j].err = NoErr}
\* The type of the first successful registration of name, if there is one.
FirstRegistered(name) ==
    regCalls[CHOOSE j \in Successes(Len(regCalls), name) :
                 \A i \in Successes(Len(regCalls), name) : j <= i].typ

\* C21: a registration fails exactly when the name was registered by an
\* earlier successful call or the pointer to the type does not implement
\* Error; the registry holds, for each name, the type of the first
\* successful registration and nothing else (failed calls change nothing);
\* the package-level function panics exactly for the calls that fail.
C21_FirstRegistrationWins ==
    /\ \A k \in DOMAIN regCalls :
          regCalls[k].op = "register" =>
              /\ regCalls[k].err # NoErr <=>
                    (Successes(k - 1, regCalls[k].name) # {} \/ ~regCalls[k].typ.impl)
              /\ regCalls[k].panicked <=> (regCalls[k].global /\ regCalls[k].err # NoErr)
    /\ gor[1].pc = "idle" =>
          /\ DOMAIN registry = {n \in ErrorNames : Successes(Len(regCalls), n) # {}}
          /\ \A n \in DOMAIN registry : registry[n] = FirstRegistered(n)

\* A name was registered, a second registration of it with another type
\* through the package-level function panicked, and the first type stayed.
C21_Witness ==
    /\ Len(regCalls) = 3
    /\ regCalls[1].op = "register" /\ regCalls[1].err = NoErr
    /\ regCalls[2].op = "register" /\ regCalls[2].name = regCalls[1].name
    /\ regCalls[2].typ # regCalls[1].typ /\ regCalls[2].typ.impl
    /\ regCalls[2].panicked
    /\ regCalls[3].op = "decode" /\ regCalls[3].name = regCalls[1].name
    /\ regCalls[3].typ = regCalls[1].typ
    /\ registry[regCalls[1].name] = regCalls[1].typ

\* C30: with goroutines registering one name with different types
\* concurrently, no two of these registrations succeed (all but one fail as
\* already registered),
\* and a concurrent DecodeConjureError
\* instantiates the generic type or the type of the successful call.
C30_ConcurrentRegistration ==
    /\ \A n \in ErrorNames : \A i, j \in Successes(Len(regCalls), n) :
          regCalls[i].typ # regCalls[j].typ => i = j
    /\ \A k \in DOMAIN regCalls :
          regCalls[k].op = "decode" =>
              \/ regCalls[k].typ = GenericError
              \/ /\ Successes(Len(regCalls), regCalls[k].name) # {}
                 /\ regCalls[k].typ = FirstRegistered(regCalls[k].name)

\* ---------------------------------------------------------------------
\* The mapped refreshable TLS configuration (refreshingclient).
\* ---------------------------------------------------------------------

MaxConf == 2
MaxTLSOps == 4

\* The *tls.Config values r can hold.
TLSConfigs == 1..MaxConf
\* The goroutines that publish to r or call the mapped config.
TLSThreads == {1, 2}
\* What a consumer does when invoked: record the config; also subscribe
\* another consumer to the mapped config; also publish to r again.
ConsumerKinds == {"record", "resubscribe", "reupdate"}

\* mapFn: the caller's mapping of r's config.
MapFn(c) == [mapped |-> c]

\* MappedRefreshableTLSConfig.GetTLSConfig: m.conf.Load().
GetTLSConfig == conf

\* StaticTLSConfigProvider.SubscribeToTLSConfig returns nil and drops the
\* consumer; any other RefreshableTLSConf keeps it for its later updates.
KeepsConsumer(r) == r.kind # "static"

\* for _, sub := range m.subscribers: the slice, in order.
rangeSubscribersReversed(subs) == [i \in DOMAIN subs |-> subs[Len(subs) + 1 - i]]
rangeSubscribers(subs) == subs

\* The function SubscribeToTLSConfig returns: func() {}.
unsubscribeRemoves(subs, id) == SelectSeq(subs, LAMBDA x : x.id # id)
unsubscribe(subs, id) == subs

UpdateFrame(u, c) == [fn |-> "update", pc |-> "store", u |-> u, conf |-> c,
                      subs |-> <<>>, i |-> 0, kind |-> "none"]
SubscribeFrame(kind) == [fn |-> "subscribe", pc |-> "lock", u |-> 0, conf |-> Nil,
                         subs |-> <<>>, i |-> 0, kind |-> kind]
UpdateRecord(c) == [conf |-> c, subsAtCall |-> Len(subscribers),
                    unsubAtCall |-> hist.unsubscribed, done |-> FALSE]
StoreEvent(u) == [e |-> "store", u |-> u, sub |-> 0, conf |-> hist.updates[u].conf]
DeliverEvent(u, id, c) == [e |-> "deliver", u |-> u, sub |-> id, conf |-> c]

InCall(t) == threads[t] # <<>>
Top(t) == threads[t][Len(threads[t])]
Push(t, f) == [threads EXCEPT ![t] = Append(@, f)]
Pop(t) == [threads EXCEPT ![t] = SubSeq(@, 1, Len(@) - 1)]
SetTop(t, f) == [threads EXCEPT ![t] = [@ EXCEPT ![Len(@)] = f]]
\* The calls started on the mapped config so far.
TLSOps == Len(hist.updates) + hist.subCalls

\* r publishes config c and invokes the consumer ConfigureTLSConfig
\* subscribed: func(c) { m.update(mapFn(c)) }. The call of update.
Publish(t, c) ==
    /\ ~InCall(t)
    /\ KeepsConsumer(upstream)
    /\ TLSOps < MaxTLSOps
    /\ upstream' = [upstream EXCEPT !.cur = c]
    /\ hist' = [hist EXCEPT !.updates = Append(@, UpdateRecord(MapFn(c)))]
    /\ threads' = Push(t, UpdateFrame(Len(hist.updates) + 1, MapFn(c)))
    /\ UNCHANGED <<conf, mu, subscribers>>
    /\ UNCHANGED <<bodyVars, regVars>>

\* update, line 58: m.conf.Store(conf).
UpdateStore(t) ==
    /\ InCall(t)
    /\ Top(t).fn = "update" /\ Top(t).pc = "store"
    /\ conf' = Top(t).conf
    /\ hist' = [hist EXCEPT !.log = Append(@, StoreEvent(Top(t).u))]
    /\ threads' = SetTop(t, [Top(t) EXCEPT !.pc = "lock"])
    /\ UNCHANGED <<mu, subscribers, upstream>>
    /\ UNCHANGED <<bodyVars, regVars>>

\* m.mu.Lock(), lines 60 and 69: sync.Mutex is not reentrant, the call
\* returns only when nobody holds the mutex. In update the range
\* expression is evaluated next (line 62).
Lock(t) ==
    /\ InCall(t)
    /\ Top(t).pc = "lock"
    /\ mu = 0
    /\ mu' = t
    /\ threads' = SetTop(t, IF Top(t).fn = "update"
                            THEN [Top(t) EXCEPT !.pc = "notify", !.i = 1,
                                                !.subs = rangeSubscribers(subscribers)]
                            ELSE [Top(t) EXCEPT !.pc = "append"])
    /\ UNCHANGED <<conf, subscribers, upstream, hist>>
    /\ UNCHANGED <<bodyVars, regVars>>

\* update, line 63: (*sub)(conf) for the next subscriber; what the
\* consumer does runs on this goroutine, inside update.
Notify(t) ==
    /\ InCall(t)
    /\ Top(t).fn = "update" /\ Top(t).pc = "notify"
    /\ Top(t).i <= Len(Top(t).subs)
    /\ LET f == Top(t)
           sub == f.subs[f.i]
           next == SetTop(t, [f EXCEPT !.i = @ + 1])
           logged == [hist EXCEPT !.log = Append(@, DeliverEvent(f.u, sub.id, f.conf))]
       IN  CASE sub.kind = "record" ->
                  /\ threads' = next
                  /\ hist' = logged
                  /\ upstream' = upstream
             [] sub.kind = "resubscribe" ->
                  /\ threads' = [next EXCEPT ![t] = Append(@, SubscribeFrame("record"))]
                  /\ hist' = [logged EXCEPT !.subCalls = @ + 1]
                  /\ upstream' = upstream
             [] sub.kind = "reupdate" ->
                  /\ threads' = [next EXCEPT ![t] =
                                    Append(@, UpdateFrame(Len(hist.updates) + 1,
                                                          MapFn(upstream.cur)))]
                  /\ hist' = [logged EXCEPT !.updates =
                                                Append(@, UpdateRecord(MapFn(upstream.cur)))]
                  /\ upstream' = upstream
    /\ UNCHANGED <<conf, mu, subscribers>>
    /\ UNCHANGED <<bodyVars, regVars>>

\* update, lines 64-65: the loop is over, the deferred Unlock runs and
\* update returns.
UpdateReturn(t) ==
    /\ InCall(t)
    /\ Top(t).fn = "update" /\ Top(t).pc = "notify"
    /\ Top(t).i > Len(Top(t).subs)
    /\ mu' = 0
    /\ hist' = [hist EXCEPT !.updates[Top(t).u].done = TRUE]
    /\ threads' = Pop(t)
    /\ UNCHANGED <<conf, subscribers, upstream>>
    /\ UNCHANGED <<bodyVars, regVars>>

\* A goroutine calls m.SubscribeToTLSConfig(consumer).
SubscribeToTLSConfig(t, kind) ==
    /\ ~InCall(t)
    /\ TLSOps < MaxTLSOps
    /\ threads' = Push(t, SubscribeFrame(kind))
    /\ hist' = [hist EXCEPT !.subCalls = @ + 1]
    /\ UNCHANGED <<conf, mu, subscribers, upstream>>
    /\ UNCHANGED <<bodyVars, regVars>>

\* SubscribeToTLSConfig, lines 72-75: append the consumer, return the
\* unsubscribe function; the deferred Unlock runs.
SubscribeAppend(t) ==
    /\ InCall(t)
    /\ Top(t).fn = "subscribe" /\ Top(t).pc = "append"
    /\ subscribers' = Append(subscribers,
                             [id |-> Len(subscribers) + 1, kind |-> Top(t).kind])
    /\ mu' = 0
    /\ threads' = Pop(t)
    /\ UNCHANGED <<conf, upstream, hist>>
    /\ UNCHANGED <<bodyVars, regVars>>

\* The caller invokes the unsubscribe function it got for subscriber id.
Unsubscribe(t, id) ==
    /\ ~InCall(t)
    /\ id \in 1..Len(subscribers)
    /\ id \notin hist.unsubscribed
    /\ subscribers' = unsubscribe(subscribers, id)
    /\ hist' = [hist EXCEPT !.unsubscribed = @ \cup {id}]
    /\ UNCHANGED <<conf, mu, upstream, threads>>
    /\ UNCHANGED <<bodyVars, regVars>>

\* The state when ConfigureTLSConfig(r, mapFn) has returned: m is the zero
\* value unless r invoked the consumer while subscribing it. The static
\* provider never does (line 104); whether another RefreshableTLSConf does
\* is its own choice.
InitTLS ==
    /\ \E kind \in {"static", "refreshable"}, atSubscribe \in BOOLEAN :
          /\ upstream = [kind |-> kind, cur |-> 1]
          /\ atSubscribe => kind # "static"
          /\ conf = IF atSubscribe THEN MapFn(1) ELSE Nil
          /\ hist = [updates |-> IF atSubscribe
                                 THEN <<[conf |-> MapFn(1), subsAtCall |-> 0,
                                         unsubAtCall |-> {}, done |-> TRUE]>>
                                 ELSE <<>>,
                     log |-> IF atSubscribe
                             THEN <<[e |-> "store", u |-> 1, sub |-> 0, conf |-> MapFn(1)]>>
                             ELSE <<>>,
                     subCalls |-> 0,
                     unsubscribed |-> {}]
    /\ mu = 0
    /\ subscribers = <<>>
    /\ threads = [t \in TLSThreads |-> <<>>]
    /\ BodyIdle
    /\ RegistryIdle

NextTLS ==
    \/ \E t \in TLSThreads, c \in TLSConfigs : Publish(t, c)
    \/ \E t \in TLSThreads : UpdateStore(t)
    \/ \E t \in TLSThreads : Lock(t)
    \/ \E t \in TLSThreads : Notify(t)
    \/ \E t \in TLSThreads : UpdateReturn(t)
    \/ \E t \in TLSThreads, kind \in ConsumerKinds : SubscribeToTLSConfig(t, kind)
    \/ \E t \in TLSThreads : SubscribeAppend(t)
    \/ \E t \in TLSThreads, id \in 1..MaxTLSOps : Unsubscribe(t, id)

SpecTLS == InitTLS /\ [][NextTLS]_vars

\* The consumer invocations update u made so far, in order.
Deliveries(u) == SelectSeq(hist.log, LAMBDA x : x.e = "deliver" /\ x.u = u)
\* The configs subscriber id was invoked with so far, in order.
DeliveredTo(id) == SelectSeq(hist.log, LAMBDA x : x.e = "deliver" /\ x.sub = id)
Quiescent == \A t \in TLSThreads : ~InCall(t)

\* Every step keeps the subscriber list as a prefix of the new list.
SubscribersKept ==
    /\ Len(subscribers') >= Len(subscribers)
    /\ SubSeq(subscribers', 1, Len(subscribers)) = subscribers
\* A step that invokes an unsubscribe function changes nothing of m.
UnsubscribeChangesNothing ==
    hist'.unsubscribed # hist.unsubscribed => UNCHANGED <<conf, mu, subscribers>>
\* An update that returned invoked every consumer that had been
\* unsubscribed when the update was called.
UnsubscribedStillNotified ==
    \A u \in DOMAIN hist.updates :
        hist.updates[u].done =>
            \A id \in hist.updates[u].unsubAtCall :
                \E k \in DOMAIN hist.log :
                    /\ hist.log[k].e = "deliver"
                    /\ hist.log[k].u = u /\ hist.log[k].sub = id

\* C22: the unsubscribe function SubscribeToTLSConfig returns is a no-op:
\* invoking it changes nothing, the consumer is still invoked by later
\* updates, and the subscriber list never shrinks or reorders.
C22_UnsubscribeIsNoOp ==
    [][/\ SubscribersKept
       /\ UnsubscribeChangesNothing
       /\ UnsubscribedStillNotified']_vars

\* A consumer was unsubscribed, and an update called afterwards returned
\* having invoked it.
C22_Witness ==
    \E u \in DOMAIN hist.updates :
        /\ hist.updates[u].done
        /\ hist.updates[u].unsubAtCall # {}
        /\ \E k \in DOMAIN hist.log :
              /\ hist.log[k].e = "deliver" /\ hist.log[k].u = u
              /\ hist.log[k].sub \in hist.updates[u].unsubAtCall
        /\ Len(subscribers) >= Cardinality(hist.unsubscribed)

\* C26: an update stores its config before it invokes any consumer; it
\* invokes the subscribers in subscription order, each once, with the
\* config of this update; when it has returned, every consumer subscribed
\* before the call was invoked.
C26_StoredThenNotifiedInOrder ==
    /\ \A k \in DOMAIN hist.log :
          hist.log[k].e = "deliver" =>
              \E j \in 1..(k - 1) :
                  hist.log[j].e = "store" /\ hist.log[j].u = hist.log[k].u
    /\ \A u \in DOMAIN hist.updates :
          LET d == Deliveries(u)
          IN  /\ \A i \in DOMAIN d :
                    d[i].sub = i /\ d[i].conf = hist.updates[u].conf
              /\ hist.updates[u].done => Len(d) >= hist.updates[u].subsAtCall

\* An update called with two subscribers returned after invoking both.
C26_Witness ==
    \E u \in DOMAIN hist.updates :
        /\ hist.updates[u].done
        /\ hist.updates[u].subsAtCall >= 2
        /\ Len(Deliveries(u)) >= 2
        /\ GetTLSConfig = hist.updates[u].conf

\* C27: when the update calls of several goroutines have all returned,
\* the config each subscriber was last invoked with is the one
\* GetTLSConfig returns.
C27_SubscribersSeeCurrent ==
    Quiescent =>
        \A id \in 1..Len(subscribers) :
            LET d == DeliveredTo(id)
            IN  d # <<>> => d[Len(d)].conf = GetTLSConfig

\* C28: no call of update or SubscribeToTLSConfig waits for the mutex
\* while the update it runs inside holds it (such a call never returns).
C28_CallsComplete ==
    \A t \in TLSThreads : ~(InCall(t) /\ Top(t).pc = "lock" /\ mu = t)

\* C29: once ConfigureTLSConfig(r, mapFn) has returned and no update is
\* running, GetTLSConfig is mapFn of the config r holds.
C29_MappedConfigCurrent ==
    Quiescent => GetTLSConfig = MapFn(upstream.cur)

====
